---- MODULE Spec2Model ----
(***************************************************************************)
(* Model of the batched product upload component                           *)
(* (frontend/src/components/ProductBulkUpload.tsx): the CSV parse stage,   *)
(* the Upload / Start Over buttons and the asynchronous function           *)
(* uploadProductsBatch, cut into atomic steps at its suspension points     *)
(* (await fetch, await setTimeout); of the single-request upload component *)
(* (frontend/src/components/ProductCSVUpload.tsx); and of the row          *)
(* normalizers and validators of both, applied to drawn inputs.            *)
(*                                                                         *)
(* A JavaScript string is a sequence of fragments (TLA+ strings), so that  *)
(* template literals are concatenations; cell texts are sequences of       *)
(* one-character fragments.  A nullable or optional value is the empty     *)
(* sequence (null / undefined) or a one-element sequence holding the value.*)
(***************************************************************************)
EXTENDS Integers, Sequences, FiniteSets, TLC

VARIABLES
    \* React state of ProductBulkUpload (lines 47-54)
    isProcessing, uploadProgress, processingStats, uploadResult,
    parsedProducts, validationErrors, statusMessage,
    \* number of Papa.parse calls whose callback has not run yet (lines
    \* 98-155)
    pendingParses,
    \* position and locals of the running uploadProductsBatch (lines 195-292)
    pc, products, batchSize, totalBatches, i,
    totalUploaded, totalSkipped, totalErrors, allErrors,
    \* the network: requests issued and not yet resolved
    inFlight,
    \* observation of the run: every request issued, what each fetch came
    \* back with, and every event in order
    requests, outcomes, events,
    \* React state of ProductCSVUpload (ProductCSVUpload.tsx, lines 114-117);
    \* rowValidationErrors is its validationErrors
    isUploading, uploadStatus, parsedRows, rowValidationErrors,
    \* what ProductCSVUpload waits for ("idle", "parsing", "fetching"), the
    \* body of its request in flight, what its latest request came back with,
    \* the props callbacks its latest handler called, and how its latest
    \* parse ended ("none", "complete", "error")
    csvPc, csvRequest, csvResponse, callbacks, lastParse,
    \* inputs of the normalizers and validators applied on their own: the
    \* rows of a parsed file with the selectedTrendId the component was given
    \* (None when it was given none), one cell value, one product row
    rawData, selectedTrendId, cellValue, productRow,
    \* and what the functions returned for them
    bulkParsed, csvParsed, cellNormalized, validation

bulkVars == <<isProcessing, uploadProgress, processingStats, uploadResult,
              parsedProducts, validationErrors, statusMessage, pendingParses,
              pc, products, batchSize, totalBatches, i,
              totalUploaded, totalSkipped, totalErrors, allErrors,
              inFlight, requests, outcomes, events>>

csvVars == <<isUploading, uploadStatus, parsedRows, rowValidationErrors,
             csvPc, csvRequest, csvResponse, callbacks, lastParse>>

fnVars == <<rawData, selectedTrendId, cellValue, productRow,
            bulkParsed, csvParsed, cellNormalized, validation>>

vars == <<bulkVars, csvVars, fnVars>>

uiVars == <<isProcessing, uploadProgress, processingStats, uploadResult,
            parsedProducts, validationErrors, statusMessage>>

runVars == <<pc, products, batchSize, totalBatches, i,
             totalUploaded, totalSkipped, totalErrors, allErrors,
             inFlight, requests, outcomes, events>>

----------------------------------------------------------------------------
(* Bounds of the model *)

\* rows of the largest input file
MaxRows == 3
\* largest explicit batchSize argument tried besides the default
MaxBatchSize == 2
\* Papa.parse calls that may be pending at the same time
MaxPendingParses == 2

(* Program constants *)

\* default value of the batchSize parameter
DefaultBatchSize == 10
\* pacing delay between batches, in milliseconds
PacingMs == 500

----------------------------------------------------------------------------
(* Values *)

None == <<>>
Some(v) == <<v>>

\* `x || 1`: a missing count taken as one record
OrZero_OrOne(x) == IF x = None THEN 1 ELSE IF x[1] = 0 THEN 1 ELSE x[1]

\* JavaScript `x || 0` on an optional count
OrZero(x) == IF x = None THEN 0 ELSE x[1]

Digit == <<"0", "1", "2", "3", "4", "5", "6", "7", "8", "9">>

\* String(n) for a non-negative integer, as used by template literals
RECURSIVE NumStr(_)
NumStr(n) ==
    IF n < 10 THEN <<Digit[n + 1]>>
    ELSE NumStr(n \div 10) \o <<Digit[(n % 10) + 1]>>

\* Math.ceil(n / b) for n >= 0, b >= 1
MathCeilDiv(n, b) == IF n % b = 0 THEN n \div b ELSE (n \div b) + 1

\* The k in 0..99 for which the double (2k+1)/200, multiplied by 100 in
\* double arithmetic, falls just below k + 0.5 (14.499999999999998,
\* 28.499999999999996, 56.49999999999999, 57.49999999999999); for every other
\* k the product is k + 0.5 or just above it
HalvesBelow == {14, 28, 56, 57}

\* Math.round((a / b) * 100) for 0 <= a <= b, 1 <= b, in double arithmetic.
\* The two roundings of a / b and of the product move the result by less than
\* 1e-13, while an exact quotient that is not a half lies at least 1/(2b) from
\* every half: only an exact half k + 0.5 = 100a/b can be rounded the other
\* way, and there a / b is the double of (2k+1)/200 whatever a and b are.
RoundPercent(a, b) ==
    LET twice == (200 * a) \div b
    IN  IF (200 * a) % b = 0 /\ twice % 2 = 1 /\ ((twice - 1) \div 2) \in HalvesBelow
        THEN (twice - 1) \div 2
        ELSE (200 * a + b) \div (2 * b)

\* Math.min
MathMin(a, b) == IF a < b THEN a ELSE b

\* Array.prototype.slice(start, end) for 0 <= start: 0-based, end exclusive
\* and clamped to the length
Slice(arr, start, end) ==
    LET stop == MathMin(end, Len(arr))
    IN  [k \in 1..(IF stop > start THEN stop - start ELSE 0) |-> arr[start + k]]

----------------------------------------------------------------------------
(* CSV rows and files *)

\* Characters are one-character strings; a character outside printable ASCII
\* that TLA+ has no escape for is written by its code point ("U+00A0").

\* The WhiteSpace and LineTerminator code points of ECMAScript: what
\* String.prototype.trim removes, what \s matches, and what parseFloat and
\* parseInt skip at the start: tab, line feed, vertical tab, form feed,
\* carriage return, space, no-break space, the Unicode space separators, the
\* line and paragraph separators and the byte order mark
Whitespace ==
    {"\t", "\n", "U+000B", "\f", "\r", " ", "U+00A0", "U+1680", "U+2000",
     "U+2001", "U+2002", "U+2003", "U+2004", "U+2005", "U+2006", "U+2007",
     "U+2008", "U+2009", "U+200A", "U+2028", "U+2029", "U+202F", "U+205F",
     "U+3000", "U+FEFF"}

\* String.prototype.trim on a sequence of characters
RECURSIVE TrimLeft(_)
TrimLeft(s) ==
    IF s # <<>> /\ Head(s) \in Whitespace THEN TrimLeft(Tail(s)) ELSE s

RECURSIVE TrimRight(_)
TrimRight(s) ==
    IF s # <<>> /\ s[Len(s)] \in Whitespace
    THEN TrimRight(SubSeq(s, 1, Len(s) - 1)) ELSE s

Trim(s) == TrimRight(TrimLeft(s))

\* A string is a sequence of UTF-16 code units, as in JavaScript. Chr(n) is
\* the name of the code unit n: the printable ASCII characters stand for
\* themselves, tab, line feed, form feed and carriage return are written
\* with their escapes, every other unit by its number ("U+042F").
Hex == <<"0", "1", "2", "3", "4", "5", "6", "7", "8", "9", "A", "B", "C", "D", "E", "F">>

\* the code units 32 to 126 (the grave accent, which a string of this
\* notation cannot hold, by its number)
Ascii ==
    <<" ", "!", "\"", "#", "$", "%", "&", "'", "(", ")", "*", "+", ",", "-",
      ".", "/", "0", "1", "2", "3", "4", "5", "6", "7", "8", "9", ":", ";",
      "<", "=", ">", "?", "@", "A", "B", "C", "D", "E", "F", "G", "H", "I",
      "J", "K", "L", "M", "N", "O", "P", "Q", "R", "S", "T", "U", "V", "W",
      "X", "Y", "Z", "[", "\\", "]", "^", "_", "U+0060", "a", "b", "c", "d", "e",
      "f", "g", "h", "i", "j", "k", "l", "m", "n", "o", "p", "q", "r", "s",
      "t", "u", "v", "w", "x", "y", "z", "{", "|", "}", "~">>

Chr(n) ==
    IF n >= 32 /\ n <= 126 THEN Ascii[n - 31]
    ELSE IF n = 9 THEN "\t"
    ELSE IF n = 10 THEN "\n"
    ELSE IF n = 12 THEN "\f"
    ELSE IF n = 13 THEN "\r"
    ELSE "U+" \o Hex[((n \div 4096) % 16) + 1] \o Hex[((n \div 256) % 16) + 1]
              \o Hex[((n \div 16) % 16) + 1] \o Hex[(n % 16) + 1]

\* the code units of a code point: itself, or a surrogate pair
Units(cp) ==
    IF cp < 65536 THEN <<Chr(cp)>>
    ELSE <<Chr(55296 + ((cp - 65536) \div 1024)), Chr(56320 + ((cp - 65536) % 1024))>>

RECURSIVE UnitsOfAll(_)
UnitsOfAll(cps) ==
    IF cps = <<>> THEN <<>> ELSE Units(Head(cps)) \o UnitsOfAll(Tail(cps))

HighSurrogates == {Chr(n) : n \in 55296..56319}
LowSurrogates == {Chr(n) : n \in 56320..57343}

\* the code units of the code point a string starts with
FirstChar(s) ==
    IF Len(s) >= 2 /\ s[1] \in HighSurrogates /\ s[2] \in LowSurrogates
    THEN SubSeq(s, 1, 2) ELSE <<s[1]>>

\* The case mappings String.prototype.toLowerCase and toUpperCase apply: the
\* locale-insensitive mappings of the Unicode Character Database 17.0
\* (UnicodeData.txt and the unconditional entries of SpecialCasing.txt), by
\* code point. An entry <<first, count, step, delta>> of a Ranges table maps
\* the code points first, first + step, ... (count of them) to themselves
\* plus delta; an entry <<c, <<t1, ...>>>> of a Special table maps one code
\* point c to several.
LowerRanges ==
    <<<<65, 26, 1, 32>>, <<192, 23, 1, 32>>, <<216, 7, 1, 32>>,
     <<256, 24, 2, 1>>, <<306, 3, 2, 1>>, <<313, 8, 2, 1>>,
     <<330, 23, 2, 1>>, <<376, 1, 1, -121>>, <<377, 3, 2, 1>>,
     <<385, 1, 1, 210>>, <<386, 2, 2, 1>>, <<390, 1, 1, 206>>,
     <<391, 1, 1, 1>>, <<393, 2, 1, 205>>, <<395, 1, 1, 1>>,
     <<398, 1, 1, 79>>, <<399, 1, 1, 202>>, <<400, 1, 1, 203>>,
     <<401, 1, 1, 1>>, <<403, 1, 1, 205>>, <<404, 1, 1, 207>>,
     <<406, 1, 1, 211>>, <<407, 1, 1, 209>>, <<408, 1, 1, 1>>,
     <<412, 1, 1, 211>>, <<413, 1, 1, 213>>, <<415, 1, 1, 214>>,
     <<416, 3, 2, 1>>, <<422, 1, 1, 218>>, <<423, 1, 1, 1>>,
     <<425, 1, 1, 218>>, <<428, 1, 1, 1>>, <<430, 1, 1, 218>>,
     <<431, 1, 1, 1>>, <<433, 2, 1, 217>>, <<435, 2, 2, 1>>,
     <<439, 1, 1, 219>>, <<440, 1, 1, 1>>, <<444, 1, 1, 1>>,
     <<452, 1, 1, 2>>, <<453, 1, 1, 1>>, <<455, 1, 1, 2>>, <<456, 1, 1, 1>>,
     <<458, 1, 1, 2>>, <<459, 9, 2, 1>>, <<478, 9, 2, 1>>, <<497, 1, 1, 2>>,
     <<498, 2, 2, 1>>, <<502, 1, 1, -97>>, <<503, 1, 1, -56>>,
     <<504, 20, 2, 1>>, <<544, 1, 1, -130>>, <<546, 9, 2, 1>>,
     <<570, 1, 1, 10795>>, <<571, 1, 1, 1>>, <<573, 1, 1, -163>>,
     <<574, 1, 1, 10792>>, <<577, 1, 1, 1>>, <<579, 1, 1, -195>>,
     <<580, 1, 1, 69>>, <<581, 1, 1, 71>>, <<582, 5, 2, 1>>,
     <<880, 2, 2, 1>>, <<886, 1, 1, 1>>, <<895, 1, 1, 116>>,
     <<902, 1, 1, 38>>, <<904, 3, 1, 37>>, <<908, 1, 1, 64>>,
     <<910, 2, 1, 63>>, <<913, 17, 1, 32>>, <<931, 9, 1, 32>>,
     <<975, 1, 1, 8>>, <<984, 12, 2, 1>>, <<1012, 1, 1, -60>>,
     <<1015, 1, 1, 1>>, <<1017, 1, 1, -7>>, <<1018, 1, 1, 1>>,
     <<1021, 3, 1, -130>>, <<1024, 16, 1, 80>>, <<1040, 32, 1, 32>>,
     <<1120, 17, 2, 1>>, <<1162, 27, 2, 1>>, <<1216, 1, 1, 15>>,
     <<1217, 7, 2, 1>>, <<1232, 48, 2, 1>>, <<1329, 38, 1, 48>>,
     <<4256, 38, 1, 7264>>, <<4295, 1, 1, 7264>>, <<4301, 1, 1, 7264>>,
     <<5024, 80, 1, 38864>>, <<5104, 6, 1, 8>>, <<7305, 1, 1, 1>>,
     <<7312, 43, 1, -3008>>, <<7357, 3, 1, -3008>>, <<7680, 75, 2, 1>>,
     <<7838, 1, 1, -7615>>, <<7840, 48, 2, 1>>, <<7944, 8, 1, -8>>,
     <<7960, 6, 1, -8>>, <<7976, 8, 1, -8>>, <<7992, 8, 1, -8>>,
     <<8008, 6, 1, -8>>, <<8025, 4, 2, -8>>, <<8040, 8, 1, -8>>,
     <<8072, 8, 1, -8>>, <<8088, 8, 1, -8>>, <<8104, 8, 1, -8>>,
     <<8120, 2, 1, -8>>, <<8122, 2, 1, -74>>, <<8124, 1, 1, -9>>,
     <<8136, 4, 1, -86>>, <<8140, 1, 1, -9>>, <<8152, 2, 1, -8>>,
     <<8154, 2, 1, -100>>, <<8168, 2, 1, -8>>, <<8170, 2, 1, -112>>,
     <<8172, 1, 1, -7>>, <<8184, 2, 1, -128>>, <<8186, 2, 1, -126>>,
     <<8188, 1, 1, -9>>, <<8486, 1, 1, -7517>>, <<8490, 1, 1, -8383>>,
     <<8491, 1, 1, -8262>>, <<8498, 1, 1, 28>>, <<8544, 16, 1, 16>>,
     <<8579, 1, 1, 1>>, <<9398, 26, 1, 26>>, <<11264, 48, 1, 48>>,
     <<11360, 1, 1, 1>>, <<11362, 1, 1, -10743>>, <<11363, 1, 1, -3814>>,
     <<11364, 1, 1, -10727>>, <<11367, 3, 2, 1>>, <<11373, 1, 1, -10780>>,
     <<11374, 1, 1, -10749>>, <<11375, 1, 1, -10783>>,
     <<11376, 1, 1, -10782>>, <<11378, 1, 1, 1>>, <<11381, 1, 1, 1>>,
     <<11390, 2, 1, -10815>>, <<11392, 50, 2, 1>>, <<11499, 2, 2, 1>>,
     <<11506, 1, 1, 1>>, <<42560, 23, 2, 1>>, <<42624, 14, 2, 1>>,
     <<42786, 7, 2, 1>>, <<42802, 31, 2, 1>>, <<42873, 2, 2, 1>>,
     <<42877, 1, 1, -35332>>, <<42878, 5, 2, 1>>, <<42891, 1, 1, 1>>,
     <<42893, 1, 1, -42280>>, <<42896, 2, 2, 1>>, <<42902, 10, 2, 1>>,
     <<42922, 1, 1, -42308>>, <<42923, 1, 1, -42319>>,
     <<42924, 1, 1, -42315>>, <<42925, 1, 1, -42305>>,
     <<42926, 1, 1, -42308>>, <<42928, 1, 1, -42258>>,
     <<42929, 1, 1, -42282>>, <<42930, 1, 1, -42261>>, <<42931, 1, 1, 928>>,
     <<42932, 8, 2, 1>>, <<42948, 1, 1, -48>>, <<42949, 1, 1, -42307>>,
     <<42950, 1, 1, -35384>>, <<42951, 2, 2, 1>>, <<42955, 1, 1, -42343>>,
     <<42956, 8, 2, 1>>, <<42972, 1, 1, -42561>>, <<42997, 1, 1, 1>>,
     <<65313, 26, 1, 32>>, <<66560, 40, 1, 40>>, <<66736, 36, 1, 40>>,
     <<66928, 19, 2, 39>>, <<66929, 5, 2, 39>>, <<66941, 7, 2, 39>>,
     <<66957, 3, 2, 39>>, <<66965, 1, 1, 39>>, <<68736, 51, 1, 64>>,
     <<68944, 22, 1, 32>>, <<71840, 32, 1, 32>>, <<93760, 32, 1, 32>>,
     <<93856, 25, 1, 27>>, <<125184, 34, 1, 34>> >>

\* capital I with dot above lower-cases to i and a combining dot above
LowerSpecial ==
    <<<<304, <<105, 775>>>> >>

UpperRanges ==
    <<<<97, 26, 1, -32>>, <<181, 1, 1, 743>>, <<224, 23, 1, -32>>,
     <<248, 7, 1, -32>>, <<255, 1, 1, 121>>, <<257, 24, 2, -1>>,
     <<305, 1, 1, -232>>, <<307, 3, 2, -1>>, <<314, 8, 2, -1>>,
     <<331, 23, 2, -1>>, <<378, 3, 2, -1>>, <<383, 1, 1, -300>>,
     <<384, 1, 1, 195>>, <<387, 2, 2, -1>>, <<392, 1, 1, -1>>,
     <<396, 1, 1, -1>>, <<402, 1, 1, -1>>, <<405, 1, 1, 97>>,
     <<409, 1, 1, -1>>, <<410, 1, 1, 163>>, <<411, 1, 1, 42561>>,
     <<414, 1, 1, 130>>, <<417, 3, 2, -1>>, <<424, 1, 1, -1>>,
     <<429, 1, 1, -1>>, <<432, 1, 1, -1>>, <<436, 2, 2, -1>>,
     <<441, 1, 1, -1>>, <<445, 1, 1, -1>>, <<447, 1, 1, 56>>,
     <<453, 1, 1, -1>>, <<454, 1, 1, -2>>, <<456, 1, 1, -1>>,
     <<457, 1, 1, -2>>, <<459, 1, 1, -1>>, <<460, 1, 1, -2>>,
     <<462, 8, 2, -1>>, <<477, 1, 1, -79>>, <<479, 9, 2, -1>>,
     <<498, 1, 1, -1>>, <<499, 1, 1, -2>>, <<501, 1, 1, -1>>,
     <<505, 20, 2, -1>>, <<547, 9, 2, -1>>, <<572, 1, 1, -1>>,
     <<575, 2, 1, 10815>>, <<578, 1, 1, -1>>, <<583, 5, 2, -1>>,
     <<592, 1, 1, 10783>>, <<593, 1, 1, 10780>>, <<594, 1, 1, 10782>>,
     <<595, 1, 1, -210>>, <<596, 1, 1, -206>>, <<598, 2, 1, -205>>,
     <<601, 1, 1, -202>>, <<603, 1, 1, -203>>, <<604, 1, 1, 42319>>,
     <<608, 1, 1, -205>>, <<609, 1, 1, 42315>>, <<611, 1, 1, -207>>,
     <<612, 1, 1, 42343>>, <<613, 1, 1, 42280>>, <<614, 1, 1, 42308>>,
     <<616, 1, 1, -209>>, <<617, 1, 1, -211>>, <<618, 1, 1, 42308>>,
     <<619, 1, 1, 10743>>, <<620, 1, 1, 42305>>, <<623, 1, 1, -211>>,
     <<625, 1, 1, 10749>>, <<626, 1, 1, -213>>, <<629, 1, 1, -214>>,
     <<637, 1, 1, 10727>>, <<640, 1, 1, -218>>, <<642, 1, 1, 42307>>,
     <<643, 1, 1, -218>>, <<647, 1, 1, 42282>>, <<648, 1, 1, -218>>,
     <<649, 1, 1, -69>>, <<650, 2, 1, -217>>, <<652, 1, 1, -71>>,
     <<658, 1, 1, -219>>, <<669, 1, 1, 42261>>, <<670, 1, 1, 42258>>,
     <<837, 1, 1, 84>>, <<881, 2, 2, -1>>, <<887, 1, 1, -1>>,
     <<891, 3, 1, 130>>, <<940, 1, 1, -38>>, <<941, 3, 1, -37>>,
     <<945, 17, 1, -32>>, <<962, 1, 1, -31>>, <<963, 9, 1, -32>>,
     <<972, 1, 1, -64>>, <<973, 2, 1, -63>>, <<976, 1, 1, -62>>,
     <<977, 1, 1, -57>>, <<981, 1, 1, -47>>, <<982, 1, 1, -54>>,
     <<983, 1, 1, -8>>, <<985, 12, 2, -1>>, <<1008, 1, 1, -86>>,
     <<1009, 1, 1, -80>>, <<1010, 1, 1, 7>>, <<1011, 1, 1, -116>>,
     <<1013, 1, 1, -96>>, <<1016, 1, 1, -1>>, <<1019, 1, 1, -1>>,
     <<1072, 32, 1, -32>>, <<1104, 16, 1, -80>>, <<1121, 17, 2, -1>>,
     <<1163, 27, 2, -1>>, <<1218, 7, 2, -1>>, <<1231, 1, 1, -15>>,
     <<1233, 48, 2, -1>>, <<1377, 38, 1, -48>>, <<4304, 43, 1, 3008>>,
     <<4349, 3, 1, 3008>>, <<5112, 6, 1, -8>>, <<7296, 1, 1, -6254>>,
     <<7297, 1, 1, -6253>>, <<7298, 1, 1, -6244>>, <<7299, 2, 1, -6242>>,
     <<7301, 1, 1, -6243>>, <<7302, 1, 1, -6236>>, <<7303, 1, 1, -6181>>,
     <<7304, 1, 1, 35266>>, <<7306, 1, 1, -1>>, <<7545, 1, 1, 35332>>,
     <<7549, 1, 1, 3814>>, <<7566, 1, 1, 35384>>, <<7681, 75, 2, -1>>,
     <<7835, 1, 1, -59>>, <<7841, 48, 2, -1>>, <<7936, 8, 1, 8>>,
     <<7952, 6, 1, 8>>, <<7968, 8, 1, 8>>, <<7984, 8, 1, 8>>,
     <<8000, 6, 1, 8>>, <<8017, 4, 2, 8>>, <<8032, 8, 1, 8>>,
     <<8048, 2, 1, 74>>, <<8050, 4, 1, 86>>, <<8054, 2, 1, 100>>,
     <<8056, 2, 1, 128>>, <<8058, 2, 1, 112>>, <<8060, 2, 1, 126>>,
     <<8112, 2, 1, 8>>, <<8126, 1, 1, -7205>>, <<8144, 2, 1, 8>>,
     <<8160, 2, 1, 8>>, <<8165, 1, 1, 7>>, <<8526, 1, 1, -28>>,
     <<8560, 16, 1, -16>>, <<8580, 1, 1, -1>>, <<9424, 26, 1, -26>>,
     <<11312, 48, 1, -48>>, <<11361, 1, 1, -1>>, <<11365, 1, 1, -10795>>,
     <<11366, 1, 1, -10792>>, <<11368, 3, 2, -1>>, <<11379, 1, 1, -1>>,
     <<11382, 1, 1, -1>>, <<11393, 50, 2, -1>>, <<11500, 2, 2, -1>>,
     <<11507, 1, 1, -1>>, <<11520, 38, 1, -7264>>, <<11559, 1, 1, -7264>>,
     <<11565, 1, 1, -7264>>, <<42561, 23, 2, -1>>, <<42625, 14, 2, -1>>,
     <<42787, 7, 2, -1>>, <<42803, 31, 2, -1>>, <<42874, 2, 2, -1>>,
     <<42879, 5, 2, -1>>, <<42892, 1, 1, -1>>, <<42897, 2, 2, -1>>,
     <<42900, 1, 1, 48>>, <<42903, 10, 2, -1>>, <<42933, 8, 2, -1>>,
     <<42952, 2, 2, -1>>, <<42957, 8, 2, -1>>, <<42998, 1, 1, -1>>,
     <<43859, 1, 1, -928>>, <<43888, 80, 1, -38864>>, <<65345, 26, 1, -32>>,
     <<66600, 40, 1, -40>>, <<66776, 36, 1, -40>>, <<66967, 19, 2, -39>>,
     <<66968, 5, 2, -39>>, <<66980, 7, 2, -39>>, <<66996, 3, 2, -39>>,
     <<67004, 1, 1, -39>>, <<68800, 51, 1, -64>>, <<68976, 22, 1, -32>>,
     <<71872, 32, 1, -32>>, <<93792, 32, 1, -32>>, <<93883, 25, 1, -27>>,
     <<125218, 34, 1, -34>> >>

\* one letter upper-cases to several: sharp s to SS, the ligatures, the
\* Greek letters with iota subscript, ...
UpperSpecial ==
    <<<<223, <<83, 83>>>>, <<329, <<700, 78>>>>, <<496, <<74, 780>>>>,
     <<912, <<921, 776, 769>>>>, <<944, <<933, 776, 769>>>>,
     <<1415, <<1333, 1362>>>>, <<7830, <<72, 817>>>>, <<7831, <<84, 776>>>>,
     <<7832, <<87, 778>>>>, <<7833, <<89, 778>>>>, <<7834, <<65, 702>>>>,
     <<8016, <<933, 787>>>>, <<8018, <<933, 787, 768>>>>,
     <<8020, <<933, 787, 769>>>>, <<8022, <<933, 787, 834>>>>,
     <<8064, <<7944, 921>>>>, <<8065, <<7945, 921>>>>,
     <<8066, <<7946, 921>>>>, <<8067, <<7947, 921>>>>,
     <<8068, <<7948, 921>>>>, <<8069, <<7949, 921>>>>,
     <<8070, <<7950, 921>>>>, <<8071, <<7951, 921>>>>,
     <<8072, <<7944, 921>>>>, <<8073, <<7945, 921>>>>,
     <<8074, <<7946, 921>>>>, <<8075, <<7947, 921>>>>,
     <<8076, <<7948, 921>>>>, <<8077, <<7949, 921>>>>,
     <<8078, <<7950, 921>>>>, <<8079, <<7951, 921>>>>,
     <<8080, <<7976, 921>>>>, <<8081, <<7977, 921>>>>,
     <<8082, <<7978, 921>>>>, <<8083, <<7979, 921>>>>,
     <<8084, <<7980, 921>>>>, <<8085, <<7981, 921>>>>,
     <<8086, <<7982, 921>>>>, <<8087, <<7983, 921>>>>,
     <<8088, <<7976, 921>>>>, <<8089, <<7977, 921>>>>,
     <<8090, <<7978, 921>>>>, <<8091, <<7979, 921>>>>,
     <<8092, <<7980, 921>>>>, <<8093, <<7981, 921>>>>,
     <<8094, <<7982, 921>>>>, <<8095, <<7983, 921>>>>,
     <<8096, <<8040, 921>>>>, <<8097, <<8041, 921>>>>,
     <<8098, <<8042, 921>>>>, <<8099, <<8043, 921>>>>,
     <<8100, <<8044, 921>>>>, <<8101, <<8045, 921>>>>,
     <<8102, <<8046, 921>>>>, <<8103, <<8047, 921>>>>,
     <<8104, <<8040, 921>>>>, <<8105, <<8041, 921>>>>,
     <<8106, <<8042, 921>>>>, <<8107, <<8043, 921>>>>,
     <<8108, <<8044, 921>>>>, <<8109, <<8045, 921>>>>,
     <<8110, <<8046, 921>>>>, <<8111, <<8047, 921>>>>,
     <<8114, <<8122, 921>>>>, <<8115, <<913, 921>>>>, <<8116, <<902, 921>>>>,
     <<8118, <<913, 834>>>>, <<8119, <<913, 834, 921>>>>,
     <<8124, <<913, 921>>>>, <<8130, <<8138, 921>>>>, <<8131, <<919, 921>>>>,
     <<8132, <<905, 921>>>>, <<8134, <<919, 834>>>>,
     <<8135, <<919, 834, 921>>>>, <<8140, <<919, 921>>>>,
     <<8146, <<921, 776, 768>>>>, <<8147, <<921, 776, 769>>>>,
     <<8150, <<921, 834>>>>, <<8151, <<921, 776, 834>>>>,
     <<8162, <<933, 776, 768>>>>, <<8163, <<933, 776, 769>>>>,
     <<8164, <<929, 787>>>>, <<8166, <<933, 834>>>>,
     <<8167, <<933, 776, 834>>>>, <<8178, <<8186, 921>>>>,
     <<8179, <<937, 921>>>>, <<8180, <<911, 921>>>>, <<8182, <<937, 834>>>>,
     <<8183, <<937, 834, 921>>>>, <<8188, <<937, 921>>>>,
     <<64256, <<70, 70>>>>, <<64257, <<70, 73>>>>, <<64258, <<70, 76>>>>,
     <<64259, <<70, 70, 73>>>>, <<64260, <<70, 70, 76>>>>,
     <<64261, <<83, 84>>>>, <<64262, <<83, 84>>>>, <<64275, <<1348, 1350>>>>,
     <<64276, <<1348, 1333>>>>, <<64277, <<1348, 1339>>>>,
     <<64278, <<1358, 1350>>>>, <<64279, <<1348, 1341>>>> >>

\* the pairs <<code units, code units they map to>> of two tables
CasePairs(ranges, special) ==
    UNION {{<<Units(ranges[j][1] + k * ranges[j][3]),
              Units(ranges[j][1] + k * ranges[j][3] + ranges[j][4])>> :
                k \in 0..(ranges[j][2] - 1)} : j \in DOMAIN ranges}
    \cup {<<Units(special[j][1]), UnitsOfAll(special[j][2])>> : j \in DOMAIN special}

CaseMap(ranges, special) ==
    LET pairs == CasePairs(ranges, special)
    IN  [c \in {p[1] : p \in pairs} |-> (CHOOSE p \in pairs : p[1] = c)[2]]

ToLowerMap == CaseMap(LowerRanges, LowerSpecial)
ToUpperMap == CaseMap(UpperRanges, UpperSpecial)

\* The context of the one conditional mapping toLowerCase applies,
\* Final_Sigma: the code points that are Cased and not Case_Ignorable, and
\* those that are Case_Ignorable (DerivedCoreProperties.txt of Unicode 17.0),
\* as ranges <<first, last>>
CasedRanges ==
    <<<<65, 90>>, <<97, 122>>, <<170, 170>>, <<181, 181>>, <<186, 186>>,
     <<192, 214>>, <<216, 246>>, <<248, 442>>, <<444, 447>>, <<452, 659>>,
     <<662, 687>>, <<880, 883>>, <<886, 887>>, <<891, 893>>, <<895, 895>>,
     <<902, 902>>, <<904, 906>>, <<908, 908>>, <<910, 929>>, <<931, 1013>>,
     <<1015, 1153>>, <<1162, 1327>>, <<1329, 1366>>, <<1376, 1416>>,
     <<4256, 4293>>, <<4295, 4295>>, <<4301, 4301>>, <<4304, 4346>>,
     <<4349, 4351>>, <<5024, 5109>>, <<5112, 5117>>, <<7296, 7306>>,
     <<7312, 7354>>, <<7357, 7359>>, <<7424, 7467>>, <<7531, 7543>>,
     <<7545, 7578>>, <<7680, 7957>>, <<7960, 7965>>, <<7968, 8005>>,
     <<8008, 8013>>, <<8016, 8023>>, <<8025, 8025>>, <<8027, 8027>>,
     <<8029, 8029>>, <<8031, 8061>>, <<8064, 8116>>, <<8118, 8124>>,
     <<8126, 8126>>, <<8130, 8132>>, <<8134, 8140>>, <<8144, 8147>>,
     <<8150, 8155>>, <<8160, 8172>>, <<8178, 8180>>, <<8182, 8188>>,
     <<8450, 8450>>, <<8455, 8455>>, <<8458, 8467>>, <<8469, 8469>>,
     <<8473, 8477>>, <<8484, 8484>>, <<8486, 8486>>, <<8488, 8488>>,
     <<8490, 8493>>, <<8495, 8500>>, <<8505, 8505>>, <<8508, 8511>>,
     <<8517, 8521>>, <<8526, 8526>>, <<8544, 8575>>, <<8579, 8580>>,
     <<9398, 9449>>, <<11264, 11387>>, <<11390, 11492>>, <<11499, 11502>>,
     <<11506, 11507>>, <<11520, 11557>>, <<11559, 11559>>, <<11565, 11565>>,
     <<42560, 42605>>, <<42624, 42651>>, <<42786, 42863>>, <<42865, 42887>>,
     <<42891, 42894>>, <<42896, 42972>>, <<42997, 42998>>, <<43002, 43002>>,
     <<43824, 43866>>, <<43872, 43880>>, <<43888, 43967>>, <<64256, 64262>>,
     <<64275, 64279>>, <<65313, 65338>>, <<65345, 65370>>, <<66560, 66639>>,
     <<66736, 66771>>, <<66776, 66811>>, <<66928, 66938>>, <<66940, 66954>>,
     <<66956, 66962>>, <<66964, 66965>>, <<66967, 66977>>, <<66979, 66993>>,
     <<66995, 67001>>, <<67003, 67004>>, <<68736, 68786>>, <<68800, 68850>>,
     <<68944, 68965>>, <<68976, 68997>>, <<71840, 71903>>, <<93760, 93823>>,
     <<93856, 93880>>, <<93883, 93907>>, <<119808, 119892>>,
     <<119894, 119964>>, <<119966, 119967>>, <<119970, 119970>>,
     <<119973, 119974>>, <<119977, 119980>>, <<119982, 119993>>,
     <<119995, 119995>>, <<119997, 120003>>, <<120005, 120069>>,
     <<120071, 120074>>, <<120077, 120084>>, <<120086, 120092>>,
     <<120094, 120121>>, <<120123, 120126>>, <<120128, 120132>>,
     <<120134, 120134>>, <<120138, 120144>>, <<120146, 120485>>,
     <<120488, 120512>>, <<120514, 120538>>, <<120540, 120570>>,
     <<120572, 120596>>, <<120598, 120628>>, <<120630, 120654>>,
     <<120656, 120686>>, <<120688, 120712>>, <<120714, 120744>>,
     <<120746, 120770>>, <<120772, 120779>>, <<122624, 122633>>,
     <<122635, 122654>>, <<122661, 122666>>, <<125184, 125251>>,
     <<127280, 127305>>, <<127312, 127337>>, <<127344, 127369>> >>

CaseIgnorableRanges ==
    <<<<39, 39>>, <<46, 46>>, <<58, 58>>, <<94, 94>>, <<96, 96>>,
     <<168, 168>>, <<173, 173>>, <<175, 175>>, <<180, 180>>, <<183, 184>>,
     <<688, 879>>, <<884, 885>>, <<890, 890>>, <<900, 901>>, <<903, 903>>,
     <<1155, 1161>>, <<1369, 1369>>, <<1375, 1375>>, <<1425, 1469>>,
     <<1471, 1471>>, <<1473, 1474>>, <<1476, 1477>>, <<1479, 1479>>,
     <<1524, 1524>>, <<1536, 1541>>, <<1552, 1562>>, <<1564, 1564>>,
     <<1600, 1600>>, <<1611, 1631>>, <<1648, 1648>>, <<1750, 1757>>,
     <<1759, 1768>>, <<1770, 1773>>, <<1807, 1807>>, <<1809, 1809>>,
     <<1840, 1866>>, <<1958, 1968>>, <<2027, 2037>>, <<2042, 2042>>,
     <<2045, 2045>>, <<2070, 2093>>, <<2137, 2139>>, <<2184, 2184>>,
     <<2192, 2193>>, <<2199, 2207>>, <<2249, 2306>>, <<2362, 2362>>,
     <<2364, 2364>>, <<2369, 2376>>, <<2381, 2381>>, <<2385, 2391>>,
     <<2402, 2403>>, <<2417, 2417>>, <<2433, 2433>>, <<2492, 2492>>,
     <<2497, 2500>>, <<2509, 2509>>, <<2530, 2531>>, <<2558, 2558>>,
     <<2561, 2562>>, <<2620, 2620>>, <<2625, 2626>>, <<2631, 2632>>,
     <<2635, 2637>>, <<2641, 2641>>, <<2672, 2673>>, <<2677, 2677>>,
     <<2689, 2690>>, <<2748, 2748>>, <<2753, 2757>>, <<2759, 2760>>,
     <<2765, 2765>>, <<2786, 2787>>, <<2810, 2815>>, <<2817, 2817>>,
     <<2876, 2876>>, <<2879, 2879>>, <<2881, 2884>>, <<2893, 2893>>,
     <<2901, 2902>>, <<2914, 2915>>, <<2946, 2946>>, <<3008, 3008>>,
     <<3021, 3021>>, <<3072, 3072>>, <<3076, 3076>>, <<3132, 3132>>,
     <<3134, 3136>>, <<3142, 3144>>, <<3146, 3149>>, <<3157, 3158>>,
     <<3170, 3171>>, <<3201, 3201>>, <<3260, 3260>>, <<3263, 3263>>,
     <<3270, 3270>>, <<3276, 3277>>, <<3298, 3299>>, <<3328, 3329>>,
     <<3387, 3388>>, <<3393, 3396>>, <<3405, 3405>>, <<3426, 3427>>,
     <<3457, 3457>>, <<3530, 3530>>, <<3538, 3540>>, <<3542, 3542>>,
     <<3633, 3633>>, <<3636, 3642>>, <<3654, 3662>>, <<3761, 3761>>,
     <<3764, 3772>>, <<3782, 3782>>, <<3784, 3790>>, <<3864, 3865>>,
     <<3893, 3893>>, <<3895, 3895>>, <<3897, 3897>>, <<3953, 3966>>,
     <<3968, 3972>>, <<3974, 3975>>, <<3981, 3991>>, <<3993, 4028>>,
     <<4038, 4038>>, <<4141, 4144>>, <<4146, 4151>>, <<4153, 4154>>,
     <<4157, 4158>>, <<4184, 4185>>, <<4190, 4192>>, <<4209, 4212>>,
     <<4226, 4226>>, <<4229, 4230>>, <<4237, 4237>>, <<4253, 4253>>,
     <<4348, 4348>>, <<4957, 4959>>, <<5906, 5908>>, <<5938, 5939>>,
     <<5970, 5971>>, <<6002, 6003>>, <<6068, 6069>>, <<6071, 6077>>,
     <<6086, 6086>>, <<6089, 6099>>, <<6103, 6103>>, <<6109, 6109>>,
     <<6155, 6159>>, <<6211, 6211>>, <<6277, 6278>>, <<6313, 6313>>,
     <<6432, 6434>>, <<6439, 6440>>, <<6450, 6450>>, <<6457, 6459>>,
     <<6679, 6680>>, <<6683, 6683>>, <<6742, 6742>>, <<6744, 6750>>,
     <<6752, 6752>>, <<6754, 6754>>, <<6757, 6764>>, <<6771, 6780>>,
     <<6783, 6783>>, <<6823, 6823>>, <<6832, 6877>>, <<6880, 6891>>,
     <<6912, 6915>>, <<6964, 6964>>, <<6966, 6970>>, <<6972, 6972>>,
     <<6978, 6978>>, <<7019, 7027>>, <<7040, 7041>>, <<7074, 7077>>,
     <<7080, 7081>>, <<7083, 7085>>, <<7142, 7142>>, <<7144, 7145>>,
     <<7149, 7149>>, <<7151, 7153>>, <<7212, 7219>>, <<7222, 7223>>,
     <<7288, 7293>>, <<7376, 7378>>, <<7380, 7392>>, <<7394, 7400>>,
     <<7405, 7405>>, <<7412, 7412>>, <<7416, 7417>>, <<7468, 7530>>,
     <<7544, 7544>>, <<7579, 7679>>, <<8125, 8125>>, <<8127, 8129>>,
     <<8141, 8143>>, <<8157, 8159>>, <<8173, 8175>>, <<8189, 8190>>,
     <<8203, 8207>>, <<8216, 8217>>, <<8228, 8228>>, <<8231, 8231>>,
     <<8234, 8238>>, <<8288, 8292>>, <<8294, 8303>>, <<8305, 8305>>,
     <<8319, 8319>>, <<8336, 8348>>, <<8400, 8432>>, <<11388, 11389>>,
     <<11503, 11505>>, <<11631, 11631>>, <<11647, 11647>>, <<11744, 11775>>,
     <<11823, 11823>>, <<12293, 12293>>, <<12330, 12333>>, <<12337, 12341>>,
     <<12347, 12347>>, <<12441, 12446>>, <<12540, 12542>>, <<40981, 40981>>,
     <<42232, 42237>>, <<42508, 42508>>, <<42607, 42610>>, <<42612, 42621>>,
     <<42623, 42623>>, <<42652, 42655>>, <<42736, 42737>>, <<42752, 42785>>,
     <<42864, 42864>>, <<42888, 42890>>, <<42993, 42996>>, <<43000, 43001>>,
     <<43010, 43010>>, <<43014, 43014>>, <<43019, 43019>>, <<43045, 43046>>,
     <<43052, 43052>>, <<43204, 43205>>, <<43232, 43249>>, <<43263, 43263>>,
     <<43302, 43309>>, <<43335, 43345>>, <<43392, 43394>>, <<43443, 43443>>,
     <<43446, 43449>>, <<43452, 43453>>, <<43471, 43471>>, <<43493, 43494>>,
     <<43561, 43566>>, <<43569, 43570>>, <<43573, 43574>>, <<43587, 43587>>,
     <<43596, 43596>>, <<43632, 43632>>, <<43644, 43644>>, <<43696, 43696>>,
     <<43698, 43700>>, <<43703, 43704>>, <<43710, 43711>>, <<43713, 43713>>,
     <<43741, 43741>>, <<43756, 43757>>, <<43763, 43764>>, <<43766, 43766>>,
     <<43867, 43871>>, <<43881, 43883>>, <<44005, 44005>>, <<44008, 44008>>,
     <<44013, 44013>>, <<64286, 64286>>, <<64434, 64450>>, <<65024, 65039>>,
     <<65043, 65043>>, <<65056, 65071>>, <<65106, 65106>>, <<65109, 65109>>,
     <<65279, 65279>>, <<65287, 65287>>, <<65294, 65294>>, <<65306, 65306>>,
     <<65342, 65342>>, <<65344, 65344>>, <<65392, 65392>>, <<65438, 65439>>,
     <<65507, 65507>>, <<65529, 65531>>, <<66045, 66045>>, <<66272, 66272>>,
     <<66422, 66426>>, <<67456, 67461>>, <<67463, 67504>>, <<67506, 67514>>,
     <<68097, 68099>>, <<68101, 68102>>, <<68108, 68111>>, <<68152, 68154>>,
     <<68159, 68159>>, <<68325, 68326>>, <<68900, 68903>>, <<68942, 68942>>,
     <<68969, 68973>>, <<68975, 68975>>, <<69291, 69292>>, <<69317, 69317>>,
     <<69370, 69375>>, <<69446, 69456>>, <<69506, 69509>>, <<69633, 69633>>,
     <<69688, 69702>>, <<69744, 69744>>, <<69747, 69748>>, <<69759, 69761>>,
     <<69811, 69814>>, <<69817, 69818>>, <<69821, 69821>>, <<69826, 69826>>,
     <<69837, 69837>>, <<69888, 69890>>, <<69927, 69931>>, <<69933, 69940>>,
     <<70003, 70003>>, <<70016, 70017>>, <<70070, 70078>>, <<70089, 70092>>,
     <<70095, 70095>>, <<70191, 70193>>, <<70196, 70196>>, <<70198, 70199>>,
     <<70206, 70206>>, <<70209, 70209>>, <<70367, 70367>>, <<70371, 70378>>,
     <<70400, 70401>>, <<70459, 70460>>, <<70464, 70464>>, <<70502, 70508>>,
     <<70512, 70516>>, <<70587, 70592>>, <<70606, 70606>>, <<70608, 70608>>,
     <<70610, 70610>>, <<70625, 70626>>, <<70712, 70719>>, <<70722, 70724>>,
     <<70726, 70726>>, <<70750, 70750>>, <<70835, 70840>>, <<70842, 70842>>,
     <<70847, 70848>>, <<70850, 70851>>, <<71090, 71093>>, <<71100, 71101>>,
     <<71103, 71104>>, <<71132, 71133>>, <<71219, 71226>>, <<71229, 71229>>,
     <<71231, 71232>>, <<71339, 71339>>, <<71341, 71341>>, <<71344, 71349>>,
     <<71351, 71351>>, <<71453, 71453>>, <<71455, 71455>>, <<71458, 71461>>,
     <<71463, 71467>>, <<71727, 71735>>, <<71737, 71738>>, <<71995, 71996>>,
     <<71998, 71998>>, <<72003, 72003>>, <<72148, 72151>>, <<72154, 72155>>,
     <<72160, 72160>>, <<72193, 72202>>, <<72243, 72248>>, <<72251, 72254>>,
     <<72263, 72263>>, <<72273, 72278>>, <<72281, 72283>>, <<72330, 72342>>,
     <<72344, 72345>>, <<72544, 72544>>, <<72546, 72548>>, <<72550, 72550>>,
     <<72752, 72758>>, <<72760, 72765>>, <<72767, 72767>>, <<72850, 72871>>,
     <<72874, 72880>>, <<72882, 72883>>, <<72885, 72886>>, <<73009, 73014>>,
     <<73018, 73018>>, <<73020, 73021>>, <<73023, 73029>>, <<73031, 73031>>,
     <<73104, 73105>>, <<73109, 73109>>, <<73111, 73111>>, <<73177, 73177>>,
     <<73459, 73460>>, <<73472, 73473>>, <<73526, 73530>>, <<73536, 73536>>,
     <<73538, 73538>>, <<73562, 73562>>, <<78896, 78912>>, <<78919, 78933>>,
     <<90398, 90409>>, <<90413, 90415>>, <<92912, 92916>>, <<92976, 92982>>,
     <<92992, 92995>>, <<93504, 93506>>, <<93547, 93548>>, <<94031, 94031>>,
     <<94095, 94111>>, <<94176, 94177>>, <<94179, 94180>>, <<94194, 94195>>,
     <<110576, 110579>>, <<110581, 110587>>, <<110589, 110590>>,
     <<113821, 113822>>, <<113824, 113827>>, <<118528, 118573>>,
     <<118576, 118598>>, <<119143, 119145>>, <<119155, 119170>>,
     <<119173, 119179>>, <<119210, 119213>>, <<119362, 119364>>,
     <<121344, 121398>>, <<121403, 121452>>, <<121461, 121461>>,
     <<121476, 121476>>, <<121499, 121503>>, <<121505, 121519>>,
     <<122880, 122886>>, <<122888, 122904>>, <<122907, 122913>>,
     <<122915, 122916>>, <<122918, 122922>>, <<122928, 122989>>,
     <<123023, 123023>>, <<123184, 123197>>, <<123566, 123566>>,
     <<123628, 123631>>, <<124139, 124143>>, <<124398, 124399>>,
     <<124643, 124643>>, <<124646, 124646>>, <<124654, 124655>>,
     <<124661, 124661>>, <<124671, 124671>>, <<125136, 125142>>,
     <<125252, 125259>>, <<127995, 127999>>, <<917505, 917505>>,
     <<917536, 917631>>, <<917760, 917999>> >>

CodePoints(ranges) ==
    UNION {{Units(n) : n \in ranges[j][1]..ranges[j][2]} : j \in DOMAIN ranges}

CasedLetters == CodePoints(CasedRanges)
CaseIgnorable == CodePoints(CaseIgnorableRanges)

\* capital sigma, and the final small sigma
Sigma == <<Chr(931)>>
FinalSigma == <<Chr(962)>>

\* s starts, after any case-ignorable characters, with a cased letter
RECURSIVE FollowedByCased(_)
FollowedByCased(s) ==
    IF s = <<>> THEN FALSE
    ELSE LET c == FirstChar(s)
         IN  IF c \in CaseIgnorable
             THEN FollowedByCased(SubSeq(s, Len(c) + 1, Len(s)))
             ELSE c \in CasedLetters

\* toLowerCase of s where afterCased tells whether s is preceded by a cased
\* letter and any case-ignorable characters: a capital sigma so preceded, and
\* not followed by a cased letter, becomes the final sigma
RECURSIVE ToLowerFrom(_, _)
ToLowerFrom(s, afterCased) ==
    IF s = <<>> THEN <<>>
    ELSE LET c == FirstChar(s)
             rest == SubSeq(s, Len(c) + 1, Len(s))
         IN  (IF c = Sigma /\ afterCased /\ ~FollowedByCased(rest) THEN FinalSigma
              ELSE IF c \in DOMAIN ToLowerMap THEN ToLowerMap[c]
              ELSE c)
             \o ToLowerFrom(rest, IF c \in CaseIgnorable THEN afterCased
                                  ELSE c \in CasedLetters)

\* String.prototype.toLowerCase
ToLowerCase(s) == ToLowerFrom(s, FALSE)

\* String.prototype.toUpperCase
RECURSIVE ToUpperCase(_)
ToUpperCase(s) ==
    IF s = <<>> THEN <<>>
    ELSE LET c == FirstChar(s)
         IN  (IF c \in DOMAIN ToUpperMap THEN ToUpperMap[c] ELSE c)
             \o ToUpperCase(SubSeq(s, Len(c) + 1, Len(s)))

\* String.prototype.replace(/\s+/g, '_'): every run of whitespace becomes one
\* underscore
RECURSIVE ReplaceWhitespace(_)
ReplaceWhitespace(s) ==
    IF s = <<>> THEN <<>>
    ELSE IF Head(s) \in Whitespace
         THEN <<"_">> \o ReplaceWhitespace(TrimLeft(s))
         ELSE <<Head(s)>> \o ReplaceWhitespace(Tail(s))

\* the words the normalizers compare with and return
Male == <<"m", "a", "l", "e">>
Female == <<"f", "e", "m", "a", "l", "e">>
Unisex == <<"u", "n", "i", "s", "e", "x">>
InStock == <<"i", "n", "_", "s", "t", "o", "c", "k">>
OutOfStock == <<"o", "u", "t", "_", "o", "f", "_", "s", "t", "o", "c", "k">>
Discontinued == <<"d", "i", "s", "c", "o", "n", "t", "i", "n", "u", "e", "d">>
PreOrder == <<"p", "r", "e", "_", "o", "r", "d", "e", "r">>
USD == <<"U", "S", "D">>

\* `!value` for a cell value: undefined, or the empty string
Falsy(value) == value = None \/ value[1] = <<>>

\* NormalizeGender handing an unrecognized value on instead of defaulting
NormalizeGender_PassThrough(value) ==
    IF Falsy(value) THEN Unisex
    ELSE LET str == ToLowerCase(Trim(value[1]))
         IN  IF str \in {<<"m">>, Male, <<"m", "a", "n">>, <<"m", "e", "n">>}
             THEN Male
             ELSE IF str \in {<<"f">>, Female, <<"w", "o", "m", "a", "n">>,
                              <<"w", "o", "m", "e", "n">>}
             THEN Female
             ELSE str

\* NormalizeGender without the trim
NormalizeGender_NoTrim(value) ==
    IF Falsy(value) THEN Unisex
    ELSE LET str == ToLowerCase(value[1])
         IN  IF str \in {<<"m">>, Male, <<"m", "a", "n">>, <<"m", "e", "n">>}
             THEN Male
             ELSE IF str \in {<<"f">>, Female, <<"w", "o", "m", "a", "n">>,
                              <<"w", "o", "m", "e", "n">>}
             THEN Female
             ELSE Unisex

\* normalizeGender (lines 58-64; the same text in ProductCSVUpload.tsx,
\* lines 33-39)
NormalizeGender(value) ==
    IF Falsy(value) THEN Unisex
    ELSE LET str == ToLowerCase(Trim(value[1]))
         IN  IF str \in {<<"m">>, Male, <<"m", "a", "n">>, <<"m", "e", "n">>}
             THEN Male
             ELSE IF str \in {<<"f">>, Female, <<"w", "o", "m", "a", "n">>,
                              <<"w", "o", "m", "e", "n">>}
             THEN Female
             ELSE Unisex

validStatuses == {InStock, OutOfStock, Discontinued, PreOrder}

\* NormalizeAvailability looking the aliases up under the snake_case form
NormalizeAvailability_AliasOnSnake(value) ==
    IF Falsy(value) THEN InStock
    ELSE LET lower == ToLowerCase(Trim(value[1]))
             str == ReplaceWhitespace(lower)
         IN  IF str \in validStatuses THEN str
             ELSE IF str \in {<<"a", "v", "a", "i", "l", "a", "b", "l", "e">>,
                              <<"i", "n", " ", "s", "t", "o", "c", "k">>,
                              <<"s", "t", "o", "c", "k", "e", "d">>}
             THEN InStock
             ELSE IF str \in {<<"u", "n", "a", "v", "a", "i", "l", "a", "b", "l", "e">>,
                              <<"o", "u", "t", " ", "o", "f", " ", "s", "t", "o", "c", "k">>,
                              <<"s", "o", "l", "d", " ", "o", "u", "t">>}
             THEN OutOfStock
             ELSE IF str \in {<<"p", "r", "e", "o", "r", "d", "e", "r">>,
                              <<"p", "r", "e", " ", "o", "r", "d", "e", "r">>,
                              <<"c", "o", "m", "i", "n", "g", " ", "s", "o", "o", "n">>}
             THEN PreOrder
             ELSE InStock

\* normalizeAvailability (lines 66-79)
NormalizeAvailability(value) ==
    IF Falsy(value) THEN InStock
    ELSE LET lower == ToLowerCase(Trim(value[1]))
             str == ReplaceWhitespace(lower)
         IN  IF str \in validStatuses THEN str
             ELSE IF lower \in {<<"a", "v", "a", "i", "l", "a", "b", "l", "e">>,
                                <<"i", "n", " ", "s", "t", "o", "c", "k">>,
                                <<"s", "t", "o", "c", "k", "e", "d">>}
             THEN InStock
             ELSE IF lower \in {<<"u", "n", "a", "v", "a", "i", "l", "a", "b", "l", "e">>,
                                <<"o", "u", "t", " ", "o", "f", " ", "s", "t", "o", "c", "k">>,
                                <<"s", "o", "l", "d", " ", "o", "u", "t">>}
             THEN OutOfStock
             ELSE IF lower \in {<<"p", "r", "e", "o", "r", "d", "e", "r">>,
                                <<"p", "r", "e", " ", "o", "r", "d", "e", "r">>,
                                <<"c", "o", "m", "i", "n", "g", " ", "s", "o", "o", "n">>}
             THEN PreOrder
             ELSE InStock

\* normalizeAvailabilityStatus (ProductCSVUpload.tsx, lines 41-53)
NormalizeAvailabilityStatus(value) ==
    IF Falsy(value) THEN InStock
    ELSE LET lower == ToLowerCase(Trim(value[1]))
             str == ReplaceWhitespace(lower)
         IN  IF str \in validStatuses THEN str
             ELSE IF lower \in {<<"a", "v", "a", "i", "l", "a", "b", "l", "e">>,
                                <<"i", "n", " ", "s", "t", "o", "c", "k">>,
                                <<"a", "v", "a", "i", "l", "a", "b", "l", "e">>}
             THEN InStock
             ELSE IF lower \in {<<"u", "n", "a", "v", "a", "i", "l", "a", "b", "l", "e">>,
                                <<"o", "u", "t", " ", "o", "f", " ", "s", "t", "o", "c", "k">>,
                                <<"s", "o", "l", "d", " ", "o", "u", "t">>}
             THEN OutOfStock
             ELSE IF lower \in {<<"p", "r", "e", "o", "r", "d", "e", "r">>,
                                <<"p", "r", "e", " ", "o", "r", "d", "e", "r">>,
                                <<"c", "o", "m", "i", "n", "g", " ", "s", "o", "o", "n">>}
             THEN PreOrder
             ELSE InStock

\* the decimal digits
Digits == {Digit[d] : d \in 1..10}

DigitValue(c) == CHOOSE d \in 0..9 : Digit[d + 1] = c

\* the longest prefix of s made of digits
RECURSIVE DigitPrefix(_)
DigitPrefix(s) ==
    IF s # <<>> /\ Head(s) \in Digits
    THEN <<Head(s)>> \o DigitPrefix(Tail(s)) ELSE <<>>

\* the number a string of digits denotes
RECURSIVE DigitsValue(_)
DigitsValue(ds) ==
    IF ds = <<>> THEN 0
    ELSE 10 * DigitsValue(SubSeq(ds, 1, Len(ds) - 1)) + DigitValue(ds[Len(ds)])

\* s without its first n characters
Drop(s, n) == SubSeq(s, n + 1, Len(s))

\* JavaScript numbers: NaN, the infinities, and the finite double named by
\* the decimal mantissa * 10^exponent, kept in lowest form so that equal
\* numbers are equal values (-0 is kept as 0, which it equals and is
\* serialized as)
NaN == [kind |-> "NaN", negative |-> FALSE, mantissa |-> 0, exponent |-> 0]

Infinity(neg) ==
    [kind |-> "Infinity", negative |-> neg, mantissa |-> 0, exponent |-> 0]

RECURSIVE Decimal(_, _, _)
Decimal(neg, m, e) ==
    IF m = 0
    THEN [kind |-> "finite", negative |-> FALSE, mantissa |-> 0, exponent |-> 0]
    ELSE IF m % 10 = 0 THEN Decimal(neg, m \div 10, e + 1)
    ELSE [kind |-> "finite", negative |-> neg, mantissa |-> m, exponent |-> e]

\* the digits of a positive integer, most significant first
RECURSIVE DigitsOf(_)
DigitsOf(m) ==
    IF m < 10 THEN <<m>> ELSE DigitsOf(m \div 10) \o <<m % 10>>

\* the digits a, no more of them than t has, are above the leading digits
\* of t
RECURSIVE DigitsAbove(_, _)
DigitsAbove(a, t) ==
    IF a = <<>> THEN FALSE
    ELSE IF Head(a) # Head(t) THEN Head(a) > Head(t)
    ELSE DigitsAbove(Tail(a), Tail(t))

\* The range of a double. A decimal at or above 2^1024 - 2^970 =
\* 1.79769313486231580793...e308 rounds to Infinity, one at or below
\* 2^-1075 = 2.47032822920623272088...e-324 rounds to zero. Neither bound is
\* a decimal of twenty digits, so a shorter literal whose digits equal the
\* leading digits of a bound lies below it.
OverflowDigits == <<1, 7, 9, 7, 6, 9, 3, 1, 3, 4, 8, 6, 2, 3, 1, 5, 8, 0, 7, 9>>
UnderflowDigits == <<2, 4, 7, 0, 3, 2, 8, 2, 2, 9, 2, 0, 6, 2, 3, 2, 7, 2, 0, 8>>

\* The double nearest to mantissa * 10^exponent, named by the shortest
\* decimal: the literals the model reads have at most nine digits, and
\* doubles down to 1e-313 tell such decimals apart. Below that (the coarse
\* end of the subnormal range) the value keeps the name of the literal read.
Double(neg, m, e) ==
    LET d == Decimal(neg, m, e)
        digits == DigitsOf(d.mantissa)
        scale == d.exponent + Len(digits) - 1
    IN  IF d.mantissa = 0 THEN d
        ELSE IF scale > 308 \/ (scale = 308 /\ DigitsAbove(digits, OverflowDigits))
        THEN Infinity(neg)
        ELSE IF scale < -324
                \/ (scale = -324 /\ ~DigitsAbove(digits, UnderflowDigits))
        THEN Decimal(neg, 0, 0)
        ELSE d

\* parseFloat reads, after leading whitespace, a sign and the longest
\* prefix that is a decimal literal (digits, a fraction, an exponent) or
\* Infinity, and gives NaN when there is none.

\* the exponent part at the head of s: its value, 0 when there is none
ExponentOf(s) ==
    IF s = <<>> \/ Head(s) \notin {"e", "E"} THEN 0
    ELSE LET t == Tail(s)
         IN  IF t # <<>> /\ Head(t) = "-" THEN 0 - DigitsValue(DigitPrefix(Tail(t)))
             ELSE IF t # <<>> /\ Head(t) = "+" THEN DigitsValue(DigitPrefix(Tail(t)))
             ELSE DigitsValue(DigitPrefix(t))

\* the literal with integer digits int, followed by rest
FractionOf(neg, int, rest) ==
    LET frac == IF rest # <<>> /\ Head(rest) = "." THEN DigitPrefix(Tail(rest))
                ELSE <<>>
    IN  IF int = <<>> /\ frac = <<>> THEN NaN
        ELSE Double(neg, DigitsValue(int \o frac),
                    ExponentOf(IF rest # <<>> /\ Head(rest) = "."
                               THEN Drop(rest, 1 + Len(frac)) ELSE rest)
                    - Len(frac))

\* the literal after the sign
UnsignedOf(neg, s) ==
    IF Len(s) >= 8 /\ SubSeq(s, 1, 8) = <<"I", "n", "f", "i", "n", "i", "t", "y">>
    THEN Infinity(neg)
    ELSE FractionOf(neg, DigitPrefix(s), Drop(s, Len(DigitPrefix(s))))

SignedOf(s) ==
    IF s # <<>> /\ Head(s) = "-" THEN UnsignedOf(TRUE, Tail(s))
    ELSE IF s # <<>> /\ Head(s) = "+" THEN UnsignedOf(FALSE, Tail(s))
    ELSE UnsignedOf(FALSE, s)

ParseFloat(text) == SignedOf(TrimLeft(text))

\* String.prototype.replace(/[...]/g, '') for a character class
RECURSIVE RemoveAll(_, _)
RemoveAll(s, class) ==
    IF s = <<>> THEN <<>>
    ELSE IF Head(s) \in class THEN RemoveAll(Tail(s), class)
    ELSE <<Head(s)>> \o RemoveAll(Tail(s), class)

\* characters outside ASCII are written as their code points
Pound == "U+00A3"
Euro == "U+20AC"
Yen == "U+00A5"

\* the character class of line 85, character by character as the file
\* holds it: $ U+00AC U+00A3 U+201A U+00C7 U+00A8 U+00AC U+2022 and the
\* comma
PriceSymbols == {"$", "U+00AC", Pound, "U+201A", "U+00C7", "U+00A8", "U+2022", ","}

\* the character class of ProductCSVUpload.tsx, line 59
CsvPriceSymbols == {"$", Pound, Euro, Yen, ","}

\* the body of normalizePrice with the characters of the class left in place
PriceOf_NoStrip(value, class) ==
    IF value = None \/ value[1] = <<>> THEN None
    ELSE LET cleaned == Trim(value[1])
             price == ParseFloat(cleaned)
         IN  IF price.kind = "finite" /\ ~price.negative THEN Some(price)
             ELSE None

\* the body shared by the two normalizePrice functions: the number, or None
\* for undefined
PriceOf(value, class) ==
    IF value = None \/ value[1] = <<>> THEN None
    ELSE LET cleaned == Trim(RemoveAll(value[1], class))
             price == ParseFloat(cleaned)
         IN  IF price.kind = "finite" /\ ~price.negative THEN Some(price)
             ELSE None

\* normalizePrice (lines 81-89)
NormalizePrice(value) == PriceOf(value, PriceSymbols)

\* normalizePrice of ProductCSVUpload.tsx returning whatever parseFloat gives
CsvNormalizePrice_Unchecked(value) ==
    IF value = None \/ value[1] = <<>> THEN None
    ELSE Some(ParseFloat(Trim(RemoveAll(value[1], CsvPriceSymbols))))

\* normalizePrice of ProductCSVUpload.tsx (lines 55-63)
CsvNormalizePrice(value) == PriceOf(value, CsvPriceSymbols)

\* the hexadecimal digits and their values
HexDigits ==
    Digits \cup {"a", "b", "c", "d", "e", "f", "A", "B", "C", "D", "E", "F"}

HexDigitValue(c) ==
    IF c \in Digits THEN DigitValue(c)
    ELSE IF c \in {"a", "A"} THEN 10
    ELSE IF c \in {"b", "B"} THEN 11
    ELSE IF c \in {"c", "C"} THEN 12
    ELSE IF c \in {"d", "D"} THEN 13
    ELSE IF c \in {"e", "E"} THEN 14
    ELSE 15

RECURSIVE HexPrefix(_)
HexPrefix(s) ==
    IF s # <<>> /\ Head(s) \in HexDigits
    THEN <<Head(s)>> \o HexPrefix(Tail(s)) ELSE <<>>

RECURSIVE HexValue(_)
HexValue(ds) ==
    IF ds = <<>> THEN 0
    ELSE 16 * HexValue(SubSeq(ds, 1, Len(ds) - 1)) + HexDigitValue(ds[Len(ds)])

\* parseInt without radix reads, after leading whitespace, a sign and the
\* longest prefix of decimal digits, or of hexadecimal digits after 0x, and
\* gives NaN when there is none.
UnsignedIntOf(neg, s) ==
    IF Len(s) >= 2 /\ s[1] = "0" /\ s[2] \in {"x", "X"}
    THEN IF HexPrefix(Drop(s, 2)) = <<>> THEN NaN
         ELSE Decimal(neg, HexValue(HexPrefix(Drop(s, 2))), 0)
    ELSE IF DigitPrefix(s) = <<>> THEN NaN
    ELSE Decimal(neg, DigitsValue(DigitPrefix(s)), 0)

ParseInt(text) ==
    LET s == TrimLeft(text)
    IN  IF s # <<>> /\ Head(s) = "-" THEN UnsignedIntOf(TRUE, Tail(s))
        ELSE IF s # <<>> /\ Head(s) = "+" THEN UnsignedIntOf(FALSE, Tail(s))
        ELSE UnsignedIntOf(FALSE, s)

\* a number that `||` skips: NaN or zero
FalsyNumber(n) == n.kind = "NaN" \/ (n.kind = "finite" /\ n.mantissa = 0)

\* row.a || row.b || ... || '' : the first cell that is present and non-empty
RECURSIVE FirstTruthy(_, _)
FirstTruthy(row, headers) ==
    IF headers = <<>> THEN <<>>
    ELSE IF Head(headers) \in DOMAIN row /\ row[Head(headers)] # <<>>
         THEN row[Head(headers)]
         ELSE FirstTruthy(row, Tail(headers))

\* parseInt(row.trend_id || '1') || 1 with the fallback left out
BulkTrendId_NoFallback(row) ==
    LET cell == FirstTruthy(row, <<"trend_id">>)
    IN  Some(ParseInt(IF cell = <<>> THEN <<"1">> ELSE cell))

\* parseInt(row.trend_id || '1') || 1 (line 123)
BulkTrendId(row) ==
    LET cell == FirstTruthy(row, <<"trend_id">>)
        parsed == ParseInt(IF cell = <<>> THEN <<"1">> ELSE cell)
    IN  IF FalsyNumber(parsed) THEN Some(Decimal(FALSE, 1, 0)) ELSE Some(parsed)

\* the product object built for one row (lines 108-124); of its fields the
\* model keeps those the row check, the normalizers and the defaults decide.
\* `a || b` of two cells is the empty string or undefined when neither is
\* truthy, which the normalizers do not tell apart.
BuildProduct(row) ==
    [name |-> Trim(FirstTruthy(row, <<"name", "product_name", "title">>)),
     product_type |->
        ToLowerCase(Trim(FirstTruthy(row, <<"product_type", "type", "category">>))),
     price |-> NormalizePrice(Some(FirstTruthy(row, <<"price", "cost">>))),
     currency |->
        LET c == FirstTruthy(row, <<"currency">>)
        IN  ToUpperCase(IF c = <<>> THEN USD ELSE c),
     gender |-> NormalizeGender(Some(FirstTruthy(row, <<"gender", "target">>))),
     availability_status |->
        NormalizeAvailability(
            Some(FirstTruthy(row, <<"availability_status", "status", "stock">>))),
     trend_id |-> BulkTrendId(row)]

\* results.data.forEach (lines 106-140): the valid products in row order and
\* the error messages; rows are numbered from 2 (the header is line 1)
RECURSIVE ProcessRows(_, _, _, _)
ProcessRows(data, index, prods, errs) ==
    IF index >= Len(data) THEN [products |-> prods, errors |-> errs]
    ELSE LET product == BuildProduct(data[index + 1])
         IN  IF product.name = <<>>
             THEN ProcessRows(data, index + 1, prods,
                     Append(errs, <<"Row ">> \o NumStr(index + 2)
                                  \o <<": Product name is required">>))
             ELSE IF product.product_type = <<>>
             THEN ProcessRows(data, index + 1, prods,
                     Append(errs, <<"Row ">> \o NumStr(index + 2)
                                  \o <<": Product type is required">>))
             ELSE ProcessRows(data, index + 1, Append(prods, product), errs)

\* r.a ?? r.b ?? ... : the first cell that is present, empty or not; None
\* when the row has none of the headers
RECURSIVE FirstDefined(_, _)
FirstDefined(row, headers) ==
    IF headers = <<>> THEN None
    ELSE IF Head(headers) \in DOMAIN row THEN Some(row[Head(headers)])
    ELSE FirstDefined(row, Tail(headers))

\* x ?? d
OrElse(x, d) == IF x = None THEN d ELSE x[1]

\* normalizeProductRow (ProductCSVUpload.tsx, lines 65-84), with the fields
\* BuildProduct keeps
NormalizeProductRow(r, defaultTrendId) ==
    [name |->
        Trim(OrElse(FirstDefined(r, <<"name", "product_name", "productName",
                                      "title">>), <<>>)),
     product_type |->
        ToLowerCase(Trim(OrElse(FirstDefined(r, <<"product_type", "productType",
                                                  "type", "category">>), <<>>))),
     price |-> CsvNormalizePrice(FirstDefined(r, <<"price", "cost", "amount">>)),
     currency |-> ToUpperCase(OrElse(FirstDefined(r, <<"currency", "curr">>), USD)),
     gender |-> NormalizeGender(FirstDefined(r, <<"gender", "sex", "target">>)),
     availability_status |->
        NormalizeAvailabilityStatus(
            FirstDefined(r, <<"availability_status", "availability", "status",
                              "stock">>)),
     trend_id |->
        LET cell == FirstDefined(r, <<"trend_id", "trendId">>)
            parsed == ParseInt(IF cell # None THEN cell[1]
                               ELSE IF defaultTrendId # None
                               THEN NumStr(defaultTrendId[1])
                               ELSE <<>>)
        IN  IF FalsyNumber(parsed)
            THEN IF defaultTrendId = None THEN None
                 ELSE Some(Decimal(FALSE, defaultTrendId[1], 0))
            ELSE Some(parsed)]

\* validateProductRow (ProductCSVUpload.tsx, lines 86-105)
ValidateProductRow(row) ==
    LET errors ==
            (IF row.name = <<>> THEN << <<"Product name is required">> >> ELSE <<>>)
            \o (IF row.product_type = <<>>
                THEN << <<"Product type is required">> >> ELSE <<>>)
            \o (IF row.price # None
                   /\ ((row.price[1].kind # "NaN" /\ row.price[1].negative)
                       \/ row.price[1].kind # "finite")
                THEN << <<"Price must be a valid positive number">> >> ELSE <<>>)
            \o (IF row.gender \notin {Male, Female, Unisex}
                THEN << <<"Gender must be male, female, or unisex">> >> ELSE <<>>)
            \o (IF row.availability_status \notin validStatuses
                THEN << <<"Availability status must be one of: in_stock, out_of_stock, discontinued, pre_order">> >>
                ELSE <<>>)
    IN  [isValid |-> Len(errors) = 0, errors |-> errors]

\* rows.forEach of handleFileUpload (ProductCSVUpload.tsx, lines 141-148):
\* the valid rows in order, and for each invalid row its number, counted
\* from 1, with its messages
RECURSIVE ValidateRows(_, _, _, _)
ValidateRows(rows, index, validRows, errors) ==
    IF index >= Len(rows) THEN [validRows |-> validRows, errors |-> errors]
    ELSE LET row == rows[index + 1]
             check == ValidateProductRow(row)
         IN  IF ~check.isValid
             THEN ValidateRows(rows, index + 1, validRows,
                     Append(errors, [row |-> index + 1, errors |-> check.errors]))
             ELSE ValidateRows(rows, index + 1, Append(validRows, row), errors)

\* the `complete` callback up to the state updates (ProductCSVUpload.tsx,
\* lines 135-148)
NormalizeAndValidate(data, defaultTrendId) ==
    ValidateRows([k \in 1..Len(data) |-> NormalizeProductRow(data[k], defaultTrendId)],
                 0, <<>>, <<>>)

\* input rows: row k is named by the k-th letter
GoodRow(k) == [name |-> <<Chr(64 + k)>>, product_type |-> <<"S", "h", "o", "e">>]
NamelessRow == [name |-> <<" ">>, product_type |-> <<"S", "h", "o", "e">>]
TitledRow(k) == [title |-> <<Chr(64 + k), " ">>, category |-> <<"B", "o", "o", "t">>]

\* results.data of a file of n good rows
GoodData(n) == [k \in 1..n |-> GoodRow(k)]
\* of a file with an invalid row between valid ones
MixedData == <<TitledRow(1), NamelessRow, GoodRow(3)>>
\* of a file without any valid row
BadData == <<NamelessRow>>

\* what Papa.parse can hand to the `complete` callback
ParsedData == {GoodData(1), GoodData(MaxRows), MixedData, BadData}

\* what the forEach of lines 106-140 makes of each of them
Processed == [data \in ParsedData |-> ProcessRows(data, 0, <<>>, <<>>)]

----------------------------------------------------------------------------
(* The bulk upload endpoint as seen through fetch *)

RowRejected == <<"Product rejected">>

\* bodies of a 2xx answer to a batch of n records: all stored; all already
\* present (skipped); all rejected, with the two other counts missing and
\* the same message twice
OkResults(n) ==
    { [uploaded_count |-> Some(n), skipped_count |-> Some(0),
       error_count |-> Some(0), errors |-> None],
      [uploaded_count |-> Some(0), skipped_count |-> Some(n),
       error_count |-> Some(0), errors |-> Some(<<>>)],
      [uploaded_count |-> None, skipped_count |-> None,
       error_count |-> Some(n), errors |-> Some(<<RowRejected, RowRejected>>)] }

NoResult ==
    [uploaded_count |-> None, skipped_count |-> None,
     error_count |-> None, errors |-> None]

\* the JSON value null
JsonNull == [null |-> TRUE]

\* errorBody: None when response.json() rejects (no body, or not JSON),
\* otherwise what it resolves with: null, or an object with its optional
\* detail field
ErrorBodies ==
    {None, Some(JsonNull), Some([detail |-> None]),
     Some([detail |-> Some(<<"Trend not found">>)])}

\* A 2xx answer without a result: response.json() of line 236 rejects with a
\* SyntaxError (no body, or one that is not JSON), or resolves with null and
\* the read of result.uploaded_count throws a TypeError; the text is the
\* error's message
InvalidBodies ==
    {"Unexpected end of JSON input",
     "Cannot read properties of null (reading 'uploaded_count')"}

\* what one fetch call can come back with: a 2xx answer with a result, a
\* non-2xx answer, a rejected fetch, or a 2xx answer without a result
Responses(n) ==
    { [kind |-> "ok", status |-> 200, statusText |-> <<"OK">>,
       result |-> r, errorBody |-> None, reason |-> <<>>] : r \in OkResults(n) }
    \cup
    { [kind |-> "http", status |-> 500, statusText |-> <<"Internal Server Error">>,
       result |-> NoResult, errorBody |-> b, reason |-> <<>>] : b \in ErrorBodies }
    \cup
    { [kind |-> "network", status |-> 0, statusText |-> <<>>,
       result |-> NoResult, errorBody |-> None, reason |-> <<"Failed to fetch">>] }
    \cup
    { [kind |-> "invalid", status |-> 200, statusText |-> <<"OK">>,
       result |-> NoResult, errorBody |-> None, reason |-> <<message>>] :
        message \in InvalidBodies }

\* what the fetch call of ProductCSVUpload can come back with for n
\* records: a 2xx answer reporting k of them stored and the others already
\* present, for every k, or one without counts; or a failure: a non-2xx
\* answer, a rejected fetch, or a 2xx answer without a result
CsvResponses(n) ==
    { [kind |-> "ok", status |-> 200, statusText |-> <<"OK">>,
       result |-> [uploaded_count |-> Some(k), skipped_count |-> Some(n - k),
                   error_count |-> Some(0), errors |-> None],
       errorBody |-> None, reason |-> <<>>] : k \in 0..n }
    \cup { resp \in Responses(n) : resp.kind # "ok" \/ resp.result.uploaded_count = None }

\* lines 231-234: the message of the Error thrown for a non-2xx response;
\* for the body null, of the TypeError the read of errorData.detail throws
HttpErrorMessage(resp) ==
    LET errorData == IF resp.errorBody = None
                     THEN [detail |-> Some(<<"Upload failed">>)]
                     ELSE resp.errorBody[1]
    IN  IF errorData = JsonNull
        THEN <<"Cannot read properties of null (reading 'detail')">>
        ELSE IF errorData.detail # None /\ errorData.detail[1] # <<>>
        THEN errorData.detail[1]
        ELSE <<"HTTP ">> \o NumStr(resp.status) \o <<": ">> \o resp.statusText

\* error.message in the catch clause of line 254
CaughtMessage(resp) ==
    IF resp.kind \in {"network", "invalid"} THEN resp.reason
    ELSE HttpErrorMessage(resp)

\* line 257
BatchFailedMessage(idx, resp) ==
    <<"Batch ">> \o NumStr(idx + 1) \o <<" failed: ">> \o CaughtMessage(resp)

----------------------------------------------------------------------------
(* Initial state: the components as mounted, no run started *)

\* ProductBulkUpload as mounted
BulkMounted ==
    /\ isProcessing = FALSE
    /\ uploadProgress = 0
    /\ processingStats = None
    /\ uploadResult = None
    /\ parsedProducts = <<>>
    /\ validationErrors = <<>>
    /\ statusMessage = <<>>
    /\ pendingParses = 0
    /\ pc = "idle"
    /\ products = <<>>
    /\ batchSize = DefaultBatchSize
    /\ totalBatches = 0
    /\ i = 0
    /\ totalUploaded = 0
    /\ totalSkipped = 0
    /\ totalErrors = 0
    /\ allErrors = <<>>
    /\ inFlight = {}
    /\ requests = <<>>
    /\ outcomes = <<>>
    /\ events = <<>>

\* ProductCSVUpload as mounted (ProductCSVUpload.tsx, lines 114-117)
CsvMounted ==
    /\ isUploading = FALSE
    /\ uploadStatus = <<>>
    /\ parsedRows = <<>>
    /\ rowValidationErrors = <<>>
    /\ csvPc = "idle"
    /\ csvRequest = None
    /\ csvResponse = None
    /\ callbacks = <<>>
    /\ lastParse = "none"

\* the selectedTrendId the component can be given: none, or a trend
TrendDefaults == {None, Some(7)}

\* no function applied on its own
NothingApplied ==
    /\ rawData = <<>>
    /\ selectedTrendId = None
    /\ cellValue = None
    /\ productRow = None
    /\ bulkParsed = None
    /\ csvParsed = None
    /\ cellNormalized = None
    /\ validation = None

Init == BulkMounted /\ CsvMounted /\ NothingApplied

\* ProductCSVUpload mounted with or without the prop selectedTrendId
\* (ProductCSVUpload.tsx, lines 29 and 112)
CsvInit ==
    /\ BulkMounted
    /\ CsvMounted
    /\ selectedTrendId \in TrendDefaults
    /\ rawData = <<>>
    /\ cellValue = None
    /\ productRow = None
    /\ bulkParsed = None
    /\ csvParsed = None
    /\ cellNormalized = None
    /\ validation = None

----------------------------------------------------------------------------
(* File selection and parsing *)

\* pc = "done" marks the state a run has just completed in.  The locals of
\* the returned call are dead and nothing reads the observation of a past
\* run, so the first handler that runs afterwards leaves them as they were
\* before the run.
ForgetFinishedRun ==
    IF pc = "done"
    THEN /\ pc' = "idle"
         /\ products' = <<>>
         /\ batchSize' = DefaultBatchSize
         /\ totalBatches' = 0
         /\ i' = 0
         /\ totalUploaded' = 0
         /\ totalSkipped' = 0
         /\ totalErrors' = 0
         /\ allErrors' = <<>>
         /\ inFlight' = {}
         /\ requests' = <<>>
         /\ outcomes' = <<>>
         /\ events' = <<>>
    ELSE UNCHANGED runVars

\* processCSVFile up to the call of Papa.parse (lines 93-98); the file is
\* read asynchronously, what it holds shows when a callback runs. It
\* accepts a file whatever is pending.
ProcessCSVFile ==
    /\ statusMessage' = <<"Parsing CSV file...">>
    /\ validationErrors' = <<>>
    /\ parsedProducts' = <<>>
    /\ uploadResult' = None
    /\ pendingParses' = pendingParses + 1
    /\ UNCHANGED <<isProcessing, uploadProgress, processingStats>>

\* handleFileSelect (lines 159-165); endsWithCsv: the file name ends in .csv
HandleFileSelect(endsWithCsv) ==
    IF ~endsWithCsv
    THEN /\ validationErrors' = << <<"Please select a CSV file">> >>
         /\ UNCHANGED <<isProcessing, uploadProgress, processingStats,
                        uploadResult, parsedProducts, statusMessage,
                        pendingParses>>
    ELSE ProcessCSVFile

\* The files the user hands over: any file at any time, as long as no more
\* than MaxPendingParses calls of Papa.parse are pending.  The bound is on
\* the user's choices, to keep the count of pending calls finite; the code
\* sets no limit.
FileOffered(endsWithCsv) == endsWithCsv => pendingParses < MaxPendingParses

\* the hidden file input, disabled while a run is in progress
HandleFileInput ==
    /\ ~isProcessing
    /\ \E endsWithCsv \in BOOLEAN :
            FileOffered(endsWithCsv) /\ HandleFileSelect(endsWithCsv)
    /\ ForgetFinishedRun
    /\ UNCHANGED <<csvVars, fnVars>>

\* a file dropped on the upload area
HandleDrop ==
    /\ \E endsWithCsv \in BOOLEAN :
            FileOffered(endsWithCsv) /\ HandleFileSelect(endsWithCsv)
    /\ ForgetFinishedRun
    /\ UNCHANGED <<csvVars, fnVars>>

\* the `complete` callback of Papa.parse (lines 102-150)
ParseComplete ==
    /\ pendingParses > 0
    /\ pendingParses' = pendingParses - 1
    /\ \E data \in ParsedData :
           LET r == Processed[data]
           IN  /\ parsedProducts' = r.products
               /\ validationErrors' = r.errors
               /\ statusMessage' =
                    IF Len(r.errors) > 0
                    THEN <<"Parsed ">> \o NumStr(Len(r.products))
                         \o <<" valid products, ">> \o NumStr(Len(r.errors))
                         \o <<" errors found">>
                    ELSE <<"Successfully parsed ">> \o NumStr(Len(r.products))
                         \o <<" products - ready to upload">>
    /\ UNCHANGED <<isProcessing, uploadProgress, processingStats, uploadResult>>
    /\ ForgetFinishedRun
    /\ UNCHANGED <<csvVars, fnVars>>

\* the `error` callback of Papa.parse (lines 151-154)
ParseError ==
    /\ pendingParses > 0
    /\ pendingParses' = pendingParses - 1
    /\ validationErrors' = << <<"CSV parsing failed: ", "read error">> >>
    /\ statusMessage' = <<"Failed to parse CSV file">>
    /\ UNCHANGED <<isProcessing, uploadProgress, processingStats, uploadResult,
                   parsedProducts>>
    /\ ForgetFinishedRun
    /\ UNCHANGED <<csvVars, fnVars>>

\* resetUpload without setParsedProducts([]) (line 303)
ResetUpload_KeepsRows ==
    /\ (uploadResult # None \/ Len(parsedProducts) > 0) /\ ~isProcessing
    /\ UNCHANGED parsedProducts
    /\ validationErrors' = <<>>
    /\ uploadResult' = None
    /\ processingStats' = None
    /\ uploadProgress' = 0
    /\ statusMessage' = <<>>
    /\ UNCHANGED <<isProcessing, pendingParses>>
    /\ ForgetFinishedRun
    /\ UNCHANGED <<csvVars, fnVars>>

\* resetUpload behind the Start Over button (lines 302-312, 480-490)
ResetUpload ==
    /\ (uploadResult # None \/ Len(parsedProducts) > 0) /\ ~isProcessing
    /\ parsedProducts' = <<>>
    /\ validationErrors' = <<>>
    /\ uploadResult' = None
    /\ processingStats' = None
    /\ uploadProgress' = 0
    /\ statusMessage' = <<>>
    /\ UNCHANGED <<isProcessing, pendingParses>>
    /\ ForgetFinishedRun
    /\ UNCHANGED <<csvVars, fnVars>>

----------------------------------------------------------------------------
(* uploadProductsBatch *)

\* BatchOf with the end index taken as inclusive
BatchOf_InclusiveEnd(prods, size, idx) ==
    LET startIndex == idx * size
        endIndex == MathMin(startIndex + size, Len(prods)) - 1
    IN  Slice(prods, startIndex, endIndex)

\* lines 207-209: the records of batch idx (0-based)
BatchOf(prods, size, idx) ==
    LET startIndex == idx * size
        endIndex == MathMin(startIndex + size, Len(prods))
    IN  Slice(prods, startIndex, endIndex)

\* IssueBatch publishing the batch about to be sent as already processed
IssueBatch_CountsCurrent(idx, prods, size, batches, uploaded, errors, flying, reqs, log) ==
    LET batch == BatchOf(prods, size, idx)
    IN  /\ processingStats' =
               Some([total |-> Len(prods),
                     processed |-> MathMin(idx * size + size, Len(prods)),
                     successful |-> uploaded,
                     errors |-> errors,
                     current_batch |-> idx + 1,
                     total_batches |-> batches])
        /\ statusMessage' =
               <<"Uploading batch ">> \o NumStr(idx + 1) \o <<" of ">>
               \o NumStr(batches) \o <<" (">> \o NumStr(Len(batch))
               \o <<" products)...">>
        /\ inFlight' = flying \cup {idx + 1}
        /\ requests' = Append(reqs, [batch |-> idx + 1, products |-> batch])
        /\ events' = Append(log, [ev |-> "request", batch |-> idx + 1, ms |-> 0])
        /\ pc' = "fetching"
        /\ i' = idx

\* One turn of the for loop from its head to the await of fetch (lines
\* 206-229), for loop index idx and the totals reached so far; flying, reqs
\* and log are the requests in flight, the requests issued and the events
\* before this turn.
IssueBatch(idx, prods, size, batches, uploaded, errors, flying, reqs, log) ==
    LET batch == BatchOf(prods, size, idx)
    IN  /\ processingStats' =
               Some([total |-> Len(prods),
                     processed |-> idx * size,
                     successful |-> uploaded,
                     errors |-> errors,
                     current_batch |-> idx + 1,
                     total_batches |-> batches])
        /\ statusMessage' =
               <<"Uploading batch ">> \o NumStr(idx + 1) \o <<" of ">>
               \o NumStr(batches) \o <<" (">> \o NumStr(Len(batch))
               \o <<" products)...">>
        /\ inFlight' = flying \cup {idx + 1}
        /\ requests' = Append(reqs, [batch |-> idx + 1, products |-> batch])
        /\ events' = Append(log, [ev |-> "request", batch |-> idx + 1, ms |-> 0])
        /\ pc' = "fetching"
        /\ i' = idx

\* FinalStatus deciding on the error count instead of the uploaded count
FinalStatus_ByErrors(uploaded, errors) ==
    IF errors = 0
    THEN <<"Upload complete! Successfully uploaded ">>
         \o NumStr(uploaded) \o <<" products">>
    ELSE <<"Upload finished with issues. ">> \o NumStr(errors)
         \o <<" errors occurred.">>

\* status line of a finished run (lines 279-283)
FinalStatus(uploaded, errors) ==
    IF uploaded > 0
    THEN <<"Upload complete! Successfully uploaded ">>
         \o NumStr(uploaded) \o <<" products">>
    ELSE <<"Upload finished with issues. ">> \o NumStr(errors)
         \o <<" errors occurred.">>

\* The code after the loop (lines 261-291): final result, terminal progress
\* snapshot, status line, and the finally clause.
Finish(idx, prods, batches, uploaded, skipped, errors, errorList, flying, log) ==
    /\ uploadResult' =
           Some([uploaded_count |-> uploaded,
                 skipped_count |-> skipped,
                 error_count |-> errors,
                 errors |-> IF Len(errorList) > 0 THEN Some(errorList) ELSE None])
    /\ processingStats' =
           Some([total |-> Len(prods),
                 processed |-> Len(prods),
                 successful |-> uploaded,
                 errors |-> errors,
                 current_batch |-> batches,
                 total_batches |-> batches])
    /\ statusMessage' = FinalStatus(uploaded, errors)
    /\ isProcessing' = FALSE
    /\ uploadProgress' = 100
    /\ inFlight' = flying
    /\ events' = Append(log, [ev |-> "complete", batch |-> 0, ms |-> 0])
    /\ pc' = "done"
    /\ i' = idx

\* StartUpload without the check of an empty list (lines 295-298)
StartUpload_NoCheck ==
    /\ ~isProcessing /\ uploadResult = None
    /\ validationErrors = <<>>
    /\ \E size \in (1..MaxBatchSize) \cup {DefaultBatchSize} :
        LET batches == MathCeilDiv(Len(parsedProducts), size)
        IN  /\ products' = parsedProducts
            /\ batchSize' = size
            /\ totalBatches' = batches
            /\ totalUploaded' = 0
            /\ totalSkipped' = 0
            /\ totalErrors' = 0
            /\ allErrors' = <<>>
            /\ outcomes' = <<>>
            /\ IF 0 < batches
               THEN /\ IssueBatch(0, parsedProducts, size, batches, 0, 0,
                                  {}, <<>>, <<>>)
                    /\ isProcessing' = TRUE
                    /\ uploadProgress' = 0
                    /\ UNCHANGED uploadResult
               ELSE /\ Finish(0, parsedProducts, batches, 0, 0, 0, <<>>, {}, <<>>)
                    /\ requests' = <<>>
    /\ UNCHANGED <<parsedProducts, validationErrors, pendingParses>>
    /\ UNCHANGED <<csvVars, fnVars>>

\* StartUpload without setUploadProgress(0) at the entry of
\* uploadProductsBatch (line 197)
StartUpload_KeepsProgress ==
    /\ ~isProcessing /\ uploadResult = None
    /\ IF Len(parsedProducts) = 0
       THEN /\ validationErrors' = << <<"No products to upload">> >>
            /\ UNCHANGED <<isProcessing, uploadProgress, processingStats,
                           uploadResult, statusMessage>>
            /\ ForgetFinishedRun
       ELSE /\ validationErrors = <<>>
            /\ \E size \in (1..MaxBatchSize) \cup {DefaultBatchSize} :
                LET batches == MathCeilDiv(Len(parsedProducts), size)
                IN  /\ products' = parsedProducts
                    /\ batchSize' = size
                    /\ totalBatches' = batches
                    /\ totalUploaded' = 0
                    /\ totalSkipped' = 0
                    /\ totalErrors' = 0
                    /\ allErrors' = <<>>
                    /\ outcomes' = <<>>
                    /\ IF 0 < batches
                       THEN /\ IssueBatch(0, parsedProducts, size, batches, 0, 0,
                                          {}, <<>>, <<>>)
                            /\ isProcessing' = TRUE
                            /\ UNCHANGED <<uploadProgress, uploadResult>>
                       ELSE /\ Finish(0, parsedProducts, batches, 0, 0, 0,
                                      <<>>, {}, <<>>)
                            /\ requests' = <<>>
            /\ UNCHANGED validationErrors
    /\ UNCHANGED <<parsedProducts, pendingParses>>
    /\ UNCHANGED <<csvVars, fnVars>>

\* startUpload (lines 294-300), then uploadProductsBatch from its entry to
\* the first await (lines 196-229).  The Upload button that calls it (lines
\* 466-478) is rendered only with parsed products, no run in progress and no
\* result shown, and it is disabled while validation errors are shown; the
\* check of an empty list in startUpload answers a call made without parsed
\* products.  The handler passes no batchSize (the default applies); the
\* smaller sizes exercise the parameter.
StartUpload ==
    /\ ~isProcessing /\ uploadResult = None
    /\ IF Len(parsedProducts) = 0
       THEN /\ validationErrors' = << <<"No products to upload">> >>
            /\ UNCHANGED <<isProcessing, uploadProgress, processingStats,
                           uploadResult, statusMessage>>
            /\ ForgetFinishedRun
       ELSE /\ validationErrors = <<>>
            /\ \E size \in (1..MaxBatchSize) \cup {DefaultBatchSize} :
                LET batches == MathCeilDiv(Len(parsedProducts), size)
                IN  /\ products' = parsedProducts
                    /\ batchSize' = size
                    /\ totalBatches' = batches
                    /\ totalUploaded' = 0
                    /\ totalSkipped' = 0
                    /\ totalErrors' = 0
                    /\ allErrors' = <<>>
                    /\ outcomes' = <<>>
                    /\ IF 0 < batches
                       THEN /\ IssueBatch(0, parsedProducts, size, batches, 0, 0,
                                          {}, <<>>, <<>>)
                            /\ isProcessing' = TRUE
                            /\ uploadProgress' = 0
                            /\ UNCHANGED uploadResult
                       ELSE /\ Finish(0, parsedProducts, batches, 0, 0, 0,
                                      <<>>, {}, <<>>)
                            /\ requests' = <<>>
            /\ UNCHANGED validationErrors
    /\ UNCHANGED <<parsedProducts, pendingParses>>
    /\ UNCHANGED <<csvVars, fnVars>>

\* BatchFails sending the failed batch again instead of moving on
BatchFails_Retry ==
    /\ pc = "fetching"
    /\ \E resp \in Responses(Len(BatchOf(products, batchSize, i))) :
        /\ resp.kind # "ok"
        /\ LET batch == BatchOf(products, batchSize, i)
               errors == totalErrors + Len(batch)
               errorList == Append(allErrors, BatchFailedMessage(i, resp))
               log == Append(events, [ev |-> "failed", batch |-> i + 1, ms |-> 0])
           IN  /\ totalErrors' = errors
               /\ allErrors' = errorList
               /\ outcomes' = Append(outcomes, resp)
               /\ Len(requests) < totalBatches + 1
               /\ IssueBatch(i, products, batchSize, totalBatches,
                             totalUploaded, errors, inFlight \ {i + 1},
                             requests, log)
               /\ UNCHANGED <<uploadResult, isProcessing, uploadProgress>>
    /\ UNCHANGED <<totalUploaded, totalSkipped>>
    /\ UNCHANGED <<products, batchSize, totalBatches>>
    /\ UNCHANGED <<parsedProducts, validationErrors, pendingParses>>
    /\ UNCHANGED <<csvVars, fnVars>>

\* BatchFails counting the configured batch size instead of the batch length
BatchFails_CountsBatchSize ==
    /\ pc = "fetching"
    /\ \E resp \in Responses(Len(BatchOf(products, batchSize, i))) :
        /\ resp.kind # "ok"
        /\ LET errors == totalErrors + batchSize
               errorList == Append(allErrors, BatchFailedMessage(i, resp))
               log == Append(events, [ev |-> "failed", batch |-> i + 1, ms |-> 0])
           IN  /\ totalErrors' = errors
               /\ allErrors' = errorList
               /\ outcomes' = Append(outcomes, resp)
               /\ IF i + 1 < totalBatches
                  THEN /\ IssueBatch(i + 1, products, batchSize, totalBatches,
                                     totalUploaded, errors, inFlight \ {i + 1},
                                     requests, log)
                       /\ UNCHANGED <<uploadResult, isProcessing, uploadProgress>>
                  ELSE /\ Finish(i + 1, products, totalBatches, totalUploaded,
                                 totalSkipped, errors, errorList,
                                 inFlight \ {i + 1}, log)
                       /\ UNCHANGED requests
    /\ UNCHANGED <<totalUploaded, totalSkipped>>
    /\ UNCHANGED <<products, batchSize, totalBatches>>
    /\ UNCHANGED <<parsedProducts, validationErrors, pendingParses>>
    /\ UNCHANGED <<csvVars, fnVars>>

\* BatchFails without the inner try/catch: the error reaches the outer catch
\* (lines 285-291), which reports it and ends the run without a result
BatchFails_Abort ==
    /\ pc = "fetching"
    /\ \E resp \in Responses(Len(BatchOf(products, batchSize, i))) :
        /\ resp.kind # "ok"
        /\ outcomes' = Append(outcomes, resp)
        /\ statusMessage' = <<"Upload failed: ">> \o CaughtMessage(resp)
        /\ events' = Append(events, [ev |-> "failed", batch |-> i + 1, ms |-> 0])
    /\ isProcessing' = FALSE
    /\ uploadProgress' = 100
    /\ inFlight' = inFlight \ {i + 1}
    /\ pc' = "done"
    /\ UNCHANGED <<i, requests, uploadResult, processingStats>>
    /\ UNCHANGED <<totalUploaded, totalSkipped, totalErrors, allErrors>>
    /\ UNCHANGED <<products, batchSize, totalBatches>>
    /\ UNCHANGED <<parsedProducts, validationErrors, pendingParses>>
    /\ UNCHANGED <<csvVars, fnVars>>

\* The awaited fetch of the current batch fails: it rejects, or it resolves
\* with a non-2xx status and the Error of line 233 is thrown.  The catch
\* clause (lines 254-258) runs and the loop goes on at once.
BatchFails ==
    /\ pc = "fetching"
    /\ \E resp \in Responses(Len(BatchOf(products, batchSize, i))) :
        /\ resp.kind # "ok"
        /\ LET batch == BatchOf(products, batchSize, i)
               errors == totalErrors + Len(batch)
               errorList == Append(allErrors, BatchFailedMessage(i, resp))
               log == Append(events, [ev |-> "failed", batch |-> i + 1, ms |-> 0])
           IN  /\ totalErrors' = errors
               /\ allErrors' = errorList
               /\ outcomes' = Append(outcomes, resp)
               /\ IF i + 1 < totalBatches
                  THEN /\ IssueBatch(i + 1, products, batchSize, totalBatches,
                                     totalUploaded, errors, inFlight \ {i + 1},
                                     requests, log)
                       /\ UNCHANGED <<uploadResult, isProcessing, uploadProgress>>
                  ELSE /\ Finish(i + 1, products, totalBatches, totalUploaded,
                                 totalSkipped, errors, errorList,
                                 inFlight \ {i + 1}, log)
                       /\ UNCHANGED requests
    /\ UNCHANGED <<totalUploaded, totalSkipped>>
    /\ UNCHANGED <<products, batchSize, totalBatches>>
    /\ UNCHANGED <<parsedProducts, validationErrors, pendingParses>>
    /\ UNCHANGED <<csvVars, fnVars>>

\* BatchSucceeds without the skipped count of the answer (line 239)
BatchSucceeds_DropsSkipped ==
    /\ pc = "fetching"
    /\ \E resp \in Responses(Len(BatchOf(products, batchSize, i))) :
        /\ resp.kind = "ok"
        /\ LET result == resp.result
               uploaded == totalUploaded + OrZero(result.uploaded_count)
               skipped == totalSkipped
               errors == totalErrors + OrZero(result.error_count)
               errorList == IF result.errors # None /\ Len(result.errors[1]) > 0
                            THEN allErrors \o result.errors[1]
                            ELSE allErrors
               log == Append(events, [ev |-> "succeeded", batch |-> i + 1, ms |-> 0])
           IN  /\ totalUploaded' = uploaded
               /\ totalSkipped' = skipped
               /\ totalErrors' = errors
               /\ allErrors' = errorList
               /\ outcomes' = Append(outcomes, resp)
               /\ IF i < totalBatches - 1
                  THEN /\ uploadProgress' = RoundPercent(i + 1, totalBatches)
                       /\ pc' = "delaying"
                       /\ inFlight' = inFlight \ {i + 1}
                       /\ events' = Append(log, [ev |-> "wait", batch |-> i + 1,
                                                 ms |-> PacingMs])
                       /\ UNCHANGED <<i, requests, processingStats, statusMessage,
                                      uploadResult, isProcessing>>
                  ELSE /\ Finish(i + 1, products, totalBatches, uploaded, skipped,
                                 errors, errorList, inFlight \ {i + 1}, log)
                       /\ UNCHANGED requests
    /\ UNCHANGED <<products, batchSize, totalBatches>>
    /\ UNCHANGED <<parsedProducts, validationErrors, pendingParses>>
    /\ UNCHANGED <<csvVars, fnVars>>

\* The awaited fetch resolves with a 2xx status and a result body (lines
\* 236-252): the totals are merged, the progress bar moves, and the function
\* awaits the pacing timer unless this was the last batch.
BatchSucceeds ==
    /\ pc = "fetching"
    /\ \E resp \in Responses(Len(BatchOf(products, batchSize, i))) :
        /\ resp.kind = "ok"
        /\ LET result == resp.result
               uploaded == totalUploaded + OrZero(result.uploaded_count)
               skipped == totalSkipped + OrZero(result.skipped_count)
               errors == totalErrors + OrZero(result.error_count)
               errorList == IF result.errors # None /\ Len(result.errors[1]) > 0
                            THEN allErrors \o result.errors[1]
                            ELSE allErrors
               log == Append(events, [ev |-> "succeeded", batch |-> i + 1, ms |-> 0])
           IN  /\ totalUploaded' = uploaded
               /\ totalSkipped' = skipped
               /\ totalErrors' = errors
               /\ allErrors' = errorList
               /\ outcomes' = Append(outcomes, resp)
               /\ IF i < totalBatches - 1
                  THEN /\ uploadProgress' = RoundPercent(i + 1, totalBatches)
                       /\ pc' = "delaying"
                       /\ inFlight' = inFlight \ {i + 1}
                       /\ events' = Append(log, [ev |-> "wait", batch |-> i + 1,
                                                 ms |-> PacingMs])
                       /\ UNCHANGED <<i, requests, processingStats, statusMessage,
                                      uploadResult, isProcessing>>
                  ELSE /\ Finish(i + 1, products, totalBatches, uploaded, skipped,
                                 errors, errorList, inFlight \ {i + 1}, log)
                       /\ UNCHANGED requests
    /\ UNCHANGED <<products, batchSize, totalBatches>>
    /\ UNCHANGED <<parsedProducts, validationErrors, pendingParses>>
    /\ UNCHANGED <<csvVars, fnVars>>

\* TimerFires as a dispatcher that does not wait for the request in flight
TimerFires_NoAwait ==
    /\ pc = "fetching"
    /\ i + 1 < totalBatches
    /\ IssueBatch(i + 1, products, batchSize, totalBatches, totalUploaded,
                  totalErrors, inFlight, requests, events)
    /\ UNCHANGED <<uploadResult, isProcessing, uploadProgress>>
    /\ UNCHANGED <<totalUploaded, totalSkipped, totalErrors, allErrors>>
    /\ UNCHANGED <<products, batchSize, totalBatches, outcomes>>
    /\ UNCHANGED <<parsedProducts, validationErrors, pendingParses>>
    /\ UNCHANGED <<csvVars, fnVars>>

\* The pacing timer of line 251 fires and the next turn of the loop starts.
TimerFires ==
    /\ pc = "delaying"
    /\ IssueBatch(i + 1, products, batchSize, totalBatches, totalUploaded,
                  totalErrors, inFlight, requests, events)
    /\ UNCHANGED <<uploadResult, isProcessing, uploadProgress>>
    /\ UNCHANGED <<totalUploaded, totalSkipped, totalErrors, allErrors>>
    /\ UNCHANGED <<products, batchSize, totalBatches, outcomes>>
    /\ UNCHANGED <<parsedProducts, validationErrors, pendingParses>>
    /\ UNCHANGED <<csvVars, fnVars>>

----------------------------------------------------------------------------

Next ==
    \/ HandleFileInput
    \/ HandleDrop
    \/ ParseComplete
    \/ ParseError
    \/ ResetUpload
    \/ StartUpload
    \/ BatchFails
    \/ BatchSucceeds
    \/ TimerFires

Spec == Init /\ [][Next]_vars

\* every pending callback of the event loop eventually runs: a fetch settles,
\* a timer fires
RunStep == BatchFails \/ BatchSucceeds \/ TimerFires

FairSpec == Spec /\ WF_vars(RunStep)

----------------------------------------------------------------------------
(* ProductCSVUpload: one request for all parsed rows *)

\* a row without name and type, a row whose name cell is empty while its
\* product_name cell is not, and a row with currency, gender and status
BlankRow == [name |-> <<>>, product_type |-> <<" ">>]
MaskedRow == [name |-> <<>>, product_name |-> <<"X">>, product_type |-> <<"H", "a", "t">>]
StyledRow ==
    [name |-> <<"Z">>, type |-> <<"B", "a", "g">>, currency |-> <<"e", "u", "r">>,
     gender |-> <<"M", "e", "n">>, status |-> <<"S", "o", "l", "d", " ", "O", "u", "t">>]

\* what Papa.parse can hand to the `complete` callback of handleFileUpload
CsvParsedData ==
    {GoodData(n) : n \in 1..MaxRows}
    \cup {MixedData, BadData, <<BlankRow, GoodRow(2)>>, <<GoodRow(1), MaskedRow>>,
          <<TitledRow(1)>>, <<StyledRow, TitledRow(2)>>}

\* what handleFileUpload makes of each of them (lines 135-148), for each
\* selectedTrendId
Validated ==
    [data \in CsvParsedData, trend \in TrendDefaults |->
        NormalizeAndValidate(data, trend)]

\* a call of one of the props onRowsParsed, onUploadComplete, onError with
\* its message or count
Call(fn, message, count) == [fn |-> fn, message |-> message, count |-> count]

\* the Upload Product CSV button (disabled while isUploading), the file
\* input, and handleFileUpload up to the call of Papa.parse
\* (ProductCSVUpload.tsx, lines 120-129, 226-231, 254-264)
HandleFileUpload ==
    /\ ~isUploading
    /\ isUploading' = TRUE
    /\ uploadStatus' = <<"Parsing CSV file...">>
    /\ rowValidationErrors' = <<>>
    /\ csvPc' = "parsing"
    /\ callbacks' = <<>>
    /\ UNCHANGED <<parsedRows, csvRequest, csvResponse, lastParse>>
    /\ UNCHANGED <<bulkVars, fnVars>>

\* the `complete` callback of Papa.parse (ProductCSVUpload.tsx, lines
\* 133-169)
CsvParseComplete ==
    /\ csvPc = "parsing"
    /\ \E data \in CsvParsedData :
           LET r == Validated[data, selectedTrendId]
           IN  /\ parsedRows' = r.validRows
               /\ rowValidationErrors' = r.errors
               /\ IF Len(r.errors) > 0
                  THEN /\ uploadStatus' =
                            <<"Parsed ">> \o NumStr(Len(r.validRows))
                            \o <<" valid products, ">> \o NumStr(Len(r.errors))
                            \o <<" rows have errors">>
                       /\ callbacks' =
                            <<Call("onError",
                                   NumStr(Len(r.errors))
                                   \o <<" rows have validation errors. Please fix them before uploading.">>,
                                   0)>>
                  ELSE /\ uploadStatus' =
                            <<"Successfully parsed ">> \o NumStr(Len(r.validRows))
                            \o <<" products">>
                       /\ callbacks' =
                            <<Call("onRowsParsed", <<>>, Len(r.validRows))>>
    /\ isUploading' = FALSE
    /\ csvPc' = "idle"
    /\ lastParse' = "complete"
    /\ UNCHANGED <<csvRequest, csvResponse>>
    /\ UNCHANGED <<bulkVars, fnVars>>

\* the `error` callback of Papa.parse (ProductCSVUpload.tsx, lines 170-176)
CsvParseError ==
    /\ csvPc = "parsing"
    /\ uploadStatus' = <<"Failed to parse CSV file">>
    /\ callbacks' = <<Call("onError", <<"read error">>, 0)>>
    /\ isUploading' = FALSE
    /\ csvPc' = "idle"
    /\ lastParse' = "error"
    /\ UNCHANGED <<parsedRows, rowValidationErrors, csvRequest, csvResponse>>
    /\ UNCHANGED <<bulkVars, fnVars>>

\* handleBulkUpload up to the await of fetch (ProductCSVUpload.tsx, lines
\* 180-196).  The Upload button that calls it (lines 266-278) is rendered
\* only with parsed rows and is disabled while isUploading or while
\* validation errors are shown; the check of an empty list answers a call
\* made without parsed rows.
HandleBulkUpload ==
    /\ ~isUploading
    /\ IF Len(parsedRows) = 0
       THEN /\ callbacks' = <<Call("onError", <<"No valid products to upload">>, 0)>>
            /\ UNCHANGED <<isUploading, uploadStatus, csvPc, csvRequest,
                           csvResponse>>
       ELSE /\ rowValidationErrors = <<>>
            /\ csvResponse' = None
            /\ isUploading' = TRUE
            /\ uploadStatus' =
                    <<"Uploading ">> \o NumStr(Len(parsedRows)) \o <<" products...">>
            /\ csvRequest' = Some([products |-> parsedRows])
            /\ csvPc' = "fetching"
            /\ callbacks' = <<>>
    /\ UNCHANGED <<parsedRows, rowValidationErrors, lastParse>>
    /\ UNCHANGED <<bulkVars, fnVars>>

\* the awaited fetch resolves with a 2xx status and a result body
\* (ProductCSVUpload.tsx, lines 203-214, 221-223)
UploadSucceeds ==
    /\ csvPc = "fetching"
    /\ \E resp \in CsvResponses(Len(parsedRows)) :
        /\ resp.kind = "ok"
        /\ csvResponse' = Some(resp)
        /\ LET reported == resp.result.uploaded_count
               uploadedCount == IF reported = None \/ reported[1] = 0
                                THEN Len(parsedRows) ELSE reported[1]
           IN  /\ uploadStatus' =
                     <<"Successfully uploaded ">> \o NumStr(uploadedCount)
                     \o <<" products">>
               /\ callbacks' = <<Call("onUploadComplete", <<>>, uploadedCount)>>
    /\ parsedRows' = <<>>
    /\ rowValidationErrors' = <<>>
    /\ isUploading' = FALSE
    /\ csvRequest' = None
    /\ csvPc' = "idle"
    /\ UNCHANGED lastParse
    /\ UNCHANGED <<bulkVars, fnVars>>

\* UploadFails clearing the form as a successful upload does
UploadFails_ClearsRows ==
    /\ csvPc = "fetching"
    /\ \E resp \in CsvResponses(Len(parsedRows)) :
        /\ resp.kind # "ok"
        /\ csvResponse' = Some(resp)
        /\ callbacks' = <<Call("onError", CaughtMessage(resp), 0)>>
    /\ uploadStatus' = <<"Upload failed">>
    /\ isUploading' = FALSE
    /\ csvRequest' = None
    /\ csvPc' = "idle"
    /\ parsedRows' = <<>>
    /\ rowValidationErrors' = <<>>
    /\ UNCHANGED lastParse
    /\ UNCHANGED <<bulkVars, fnVars>>

\* the awaited fetch rejects, or resolves with a non-2xx status
\* (ProductCSVUpload.tsx, lines 198-201, 216-223)
UploadFails ==
    /\ csvPc = "fetching"
    /\ \E resp \in CsvResponses(Len(parsedRows)) :
        /\ resp.kind # "ok"
        /\ csvResponse' = Some(resp)
        /\ callbacks' = <<Call("onError", CaughtMessage(resp), 0)>>
    /\ uploadStatus' = <<"Upload failed">>
    /\ isUploading' = FALSE
    /\ csvRequest' = None
    /\ csvPc' = "idle"
    /\ UNCHANGED <<parsedRows, rowValidationErrors, lastParse>>
    /\ UNCHANGED <<bulkVars, fnVars>>

\* clearResults behind the Clear button, rendered with parsed rows and
\* disabled while isUploading (ProductCSVUpload.tsx, lines 233-240, 280-290)
ClearResults ==
    /\ Len(parsedRows) > 0 /\ ~isUploading
    /\ parsedRows' = <<>>
    /\ rowValidationErrors' = <<>>
    /\ uploadStatus' = <<>>
    /\ callbacks' = <<>>
    /\ UNCHANGED <<isUploading, csvPc, csvRequest, csvResponse, lastParse>>
    /\ UNCHANGED <<bulkVars, fnVars>>

CsvNext ==
    \/ HandleFileUpload
    \/ CsvParseComplete
    \/ CsvParseError
    \/ HandleBulkUpload
    \/ UploadSucceeds
    \/ UploadFails
    \/ ClearResults

CsvSpec == CsvInit /\ [][CsvNext]_vars

----------------------------------------------------------------------------
(* The normalizers and validators applied on their own *)

\* the cell a drawn row holds under each header, None for a header the row
\* lacks
RowCells ==
    [name : {None, Some(<<>>), Some(<<"A", " ">>)},
     product_name : {None, Some(<<"X">>)},
     product_type : {Some(<<>>), Some(<<"S", "h", "o", "e">>)},
     currency : {None, Some(<<>>), Some(<<"e", "u", "r">>),
                 Some(<<"e", "u", "r", "o">>)},
     curr : {None, Some(<<"g", "b", "p">>)},
     gender : {None, Some(<<>>), Some(<<"M", "e", "n">>),
               Some(<<"k", "i", "d", "s">>)},
     target : {None, Some(<<"F">>)},
     availability_status : {None, Some(<<>>), Some(<<"j", "u", "n", "k">>)},
     status : {None, Some(<<"S", "o", "l", "d", " ", "O", "u", "t">>)}]

\* the row Papa.parse builds of them: one key per header present
RowOf(cells) ==
    [h \in {h \in DOMAIN cells : cells[h] # None} |-> cells[h][1]]

RawRows == {RowOf(cells) : cells \in RowCells}

\* texts of price cells
PriceTexts ==
    { <<"$", "1", "2", "0", ".", "0", "0">>, <<"a", "b", "c">>, <<"-", "5">>,
      <<"1", ",", "0", "0", "0", ".", "5", "0">>, <<"0">>, <<" ", "3", " ">>,
      <<"1", "2", "a", "b", "c">>, <<"1", "e", "2">>, <<".", "5">>,
      <<"I", "n", "f", "i", "n", "i", "t", "y">>, <<"$">>,
      <<Pound, "7">>, <<Euro, "5">>, <<Yen, "9", "0">>,
      <<"U+00AC", "5">>, <<"U+00C7", "4">>, <<"-", Euro, "5">>,
      \* beyond the range of a double, and whitespace other than the space
      <<"1", "e", "3", "0", "9">>, <<"2", "e", "3", "0", "8">>,
      <<"-", "1", "e", "3", "0", "9">>, <<"1", "e", "-", "4", "0", "0">>,
      <<"\n", "5">>, <<"$", "U+00A0", "5">>,
      <<"\r", "\n", "-", "2", ".", "5">>,
      <<"-", "1", "e", "-", "4", "0", "0">> }

\* rows with a price or a cost cell, otherwise valid
PricedRows ==
    {[name |-> <<"A">>, product_type |-> <<"S", "h", "o", "e">>, price |-> text] :
        text \in PriceTexts \cup {<<>>}}
    \cup {[name |-> <<"A">>, product_type |-> <<"S", "h", "o", "e">>,
           price |-> <<>>, cost |-> text] : text \in PriceTexts}

\* texts of trend_id cells, and rows with one, otherwise valid
TrendTexts ==
    { <<>>, <<"5">>, <<"0">>, <<"a", "b", "c">>, <<"1", "2", "a", "b", "c">>,
      <<" ", "7">>, <<"-", "3">>, <<"3", ".", "9">>, <<"0", "x", "1", "A">>,
      <<"0", "x">>, <<"1", "0">>, <<"\n", "5">>, <<"U+00A0", "5">>,
      <<"\r", "\n", "-", "2", ".", "5">> }

TrendRows ==
    {[name |-> <<"A">>, product_type |-> <<"S", "h", "o", "e">>, trend_id |-> text] :
        text \in TrendTexts}

\* rows whose cells hold whitespace other than the space, letters outside
\* ASCII, or prices beyond the range of a double
WideRows ==
    { [name |-> <<"A", "\n">>, product_type |-> <<"C", "A", "F", "U+00C9">>],
      [name |-> <<"\n">>, product_type |-> <<"x">>],
      [name |-> <<"A">>, product_type |-> <<"U+00A0", "U+FEFF">>],
      [name |-> <<"U+00C5", "n", "g", "s", "t", "r", "U+00F6", "m">>,
       product_type |-> <<"U+0130">>,
       currency |-> <<"s", "t", "r", "a", "U+00DF", "e">>],
      [name |-> <<"A">>, product_type |-> <<"U+03A9">>, currency |-> <<"U+00B5", "U+0149", "U+017F">>],
      [name |-> <<"A">>, product_type |-> <<"x">>, price |-> <<"1", "e", "3", "0", "9">>],
      [name |-> <<"A">>, product_type |-> <<"x">>,
       price |-> <<"1", "e", "-", "4", "0", "0">>],
      [name |-> <<"A">>, product_type |-> <<"x">>, gender |-> <<"M", "e", "n", "\n">>,
       status |-> <<"s", "o", "l", "d", "U+00A0", "o", "u", "t">>,
       trend_id |-> <<"\n", "5">>],
      [name |-> <<"A">>, product_type |-> <<"x">>, gender |-> <<"\r", "\n", "F">>,
       availability_status |-> <<"o", "u", "t", " ", "o", "f", " ", "s", "t", "o", "c", "k", "\r">>],
      \* Cyrillic letters
      [name |-> <<"U+042F">>,
       product_type |-> <<"U+041E", "U+0411", "U+0423", "U+0412", "U+042C">>,
       currency |-> <<"U+0440", "U+0443", "U+0431">>],
      \* a capital sigma at the end of a word, the fi ligature, the Kelvin sign
      [name |-> <<"A">>, product_type |-> <<"U+039F", "U+0394", "U+039F", "U+03A3">>,
       currency |-> <<"U+FB01">>,
       availability_status |->
           <<"o", "u", "t", " ", "o", "f", " ", "s", "t", "o", "c", "U+212A">>] }

\* the row of the specification's first scenario
AirMaxRow ==
    [name |-> <<"A", "i", "r", " ", "M", "a", "x", " ", "9", "0">>,
     product_type |-> <<"S", "n", "e", "a", "k", "e", "r", "s">>,
     price |-> <<"$", "1", "2", "0", ".", "0", "0">>,
     gender |-> <<"M", "e", "n">>]

\* results.data of the files drawn: every row alone, and the files of
\* several rows
RawFiles ==
    {<<row>> : row \in RawRows \cup PricedRows \cup TrendRows \cup WideRows
                          \cup {AirMaxRow}}
    \cup ParsedData \cup CsvParsedData

\* the values a normalizer is called with: undefined (None), or a text
CellValues ==
    {None} \cup
    { Some(text) : text \in
        { <<>>, <<" ">>,
          <<"m">>, <<"M">>, <<" ", "M", "a", "l", "e", " ">>, <<"m", "a", "n">>,
          <<"M", "E", "N">>, <<"f">>, <<"F", "e", "m", "a", "l", "e">>,
          <<"w", "o", "m", "a", "n">>, <<"\t", "W", "o", "m", "e", "n">>,
          <<"U", "n", "i", "s", "e", "x">>, <<"k", "i", "d", "s">>,
          <<"m", "a", "l", "e", "s">>, <<"m", " ", "f">>,
          <<"i", "n", "_", "s", "t", "o", "c", "k">>,
          <<"I", "n", " ", "S", "t", "o", "c", "k">>,
          <<"O", "U", "T", " ", "O", "F", " ", "S", "T", "O", "C", "K">>,
          <<"o", "u", "t", "_", "o", "f", "_", "s", "t", "o", "c", "k">>,
          <<" ", "D", "i", "s", "c", "o", "n", "t", "i", "n", "u", "e", "d">>,
          <<"p", "r", "e", "_", "o", "r", "d", "e", "r">>,
          <<"P", "r", "e", " ", "\t", "O", "r", "d", "e", "r">>,
          <<"a", "v", "a", "i", "l", "a", "b", "l", "e">>,
          <<" ", "A", "v", "a", "i", "l", "a", "b", "l", "e", " ">>,
          <<"U", "n", "a", "v", "a", "i", "l", "a", "b", "l", "e">>,
          <<"s", "o", "l", "d", " ", "o", "u", "t">>,
          <<"S", "o", "l", "d", " ", "O", "u", "t">>,
          <<"s", "o", "l", "d", " ", " ", "o", "u", "t">>,
          <<"s", "o", "l", "d", "_", "o", "u", "t">>,
          <<"p", "r", "e", "o", "r", "d", "e", "r">>,
          <<"P", "r", "e", "O", "r", "d", "e", "r">>,
          <<"C", "o", "m", "i", "n", "g", " ", "S", "o", "o", "n">>,
          <<"s", "t", "o", "c", "k", "e", "d">>,
          <<"i", "n", "s", "t", "o", "c", "k">>,
          <<"j", "u", "n", "k">>,
          \* line terminators, the no-break space and other Unicode spaces
          <<"\n">>, <<"U+000B", "U+3000">>, <<"M", "e", "n", "\n">>,
          <<"M", "e", "n", "U+00A0">>, <<"\r", "\n", "F">>,
          <<"U+2028", "w", "o", "m", "a", "n", "U+FEFF">>,
          <<"p", "r", "e", "U+00A0", "o", "r", "d", "e", "r">>,
          <<"P", "r", "e", "U+2003", "\n", "O", "r", "d", "e", "r">>,
          <<"o", "u", "t", " ", "o", "f", " ", "s", "t", "o", "c", "k", "\r">>,
          <<"o", "u", "t", " ", "\r", "\n", " ", "o", "f", " ", "s", "t", "o", "c", "k">>,
          <<"D", "i", "s", "c", "o", "n", "t", "i", "n", "u", "e", "d", "\n">>,
          <<"u", "n", "a", "v", "a", "i", "l", "a", "b", "l", "e", "U+00A0">>,
          <<"s", "o", "l", "d", "U+00A0", "o", "u", "t">>,
          <<"i", "n", "\n", "s", "t", "o", "c", "k">>,
          \* letters outside ASCII
          <<"U+0130", "n", " ", "s", "t", "o", "c", "k">>, <<"M", "U+00C9", "N">>,
          <<"U+00C5", "v", "a", "i", "l", "a", "b", "l", "e">>,
          <<"s", "t", "r", "a", "U+00DF", "e">>,
          \* letters outside Latin, the Kelvin sign, a final capital sigma
          <<"o", "u", "t", " ", "o", "f", " ", "s", "t", "o", "c", "U+212A">>,
          <<"U+212A", "i", "d", "s">>,
          <<"U+041C", "U+0423", "U+0416">>,
          <<"U+039F", "U+0394", "U+039F", "U+03A3">>,
          <<"U+FB01">>, <<"U+0440", "U+0443", "U+0431">> } \cup PriceTexts }

\* rows of the ProductRow type (ProductCSVUpload.tsx, lines 5-22) with the
\* fields validateProductRow reads
ProductRows ==
    [name : {<<>>, <<"A">>},
     product_type : {<<>>, <<"s", "h", "o", "e">>},
     price : {None, Some(Decimal(FALSE, 5, 0)), Some(Decimal(TRUE, 5, 0)),
              Some(NaN)},
     currency : {USD},
     gender : {Male, <<"k", "i", "d", "s">>, <<>>},
     availability_status : {InStock, <<"j", "u", "n", "k">>}]

\* one input drawn, nothing applied to it yet
FnInit ==
    /\ BulkMounted /\ CsvMounted
    /\ bulkParsed = None /\ csvParsed = None
    /\ cellNormalized = None /\ validation = None
    /\ \/ /\ rawData \in RawFiles /\ selectedTrendId \in TrendDefaults
          /\ cellValue = None /\ productRow = None
       \/ /\ rawData = <<>> /\ selectedTrendId = None /\ productRow = None
          /\ cellValue \in {Some(value) : value \in CellValues}
       \/ /\ rawData = <<>> /\ selectedTrendId = None /\ cellValue = None
          /\ productRow \in {Some(row) : row \in ProductRows}

\* the product built for every row, and results.data.forEach of
\* processCSVFile (lines 106-140)
ApplyProcessRows ==
    /\ rawData # <<>> /\ bulkParsed = None
    /\ bulkParsed' =
            Some([product |-> [k \in 1..Len(rawData) |-> BuildProduct(rawData[k])],
                  parsed |-> ProcessRows(rawData, 0, <<>>, <<>>)])
    /\ UNCHANGED <<rawData, selectedTrendId, cellValue, productRow, csvParsed, cellNormalized,
                   validation>>
    /\ UNCHANGED <<bulkVars, csvVars>>

\* the row normalized for every row, and rows.forEach of handleFileUpload
\* (ProductCSVUpload.tsx, lines 135-148)
ApplyNormalizeAndValidate ==
    /\ rawData # <<>> /\ csvParsed = None
    /\ csvParsed' =
            Some([rows |-> [k \in 1..Len(rawData) |->
                                NormalizeProductRow(rawData[k], selectedTrendId)],
                  parsed |-> NormalizeAndValidate(rawData, selectedTrendId)])
    /\ UNCHANGED <<rawData, selectedTrendId, cellValue, productRow, bulkParsed, cellNormalized,
                   validation>>
    /\ UNCHANGED <<bulkVars, csvVars>>

\* normalizeGender, normalizeAvailability, normalizeAvailabilityStatus and the
\* two normalizePrice called with the value
ApplyNormalizers ==
    /\ cellValue # None /\ cellNormalized = None
    /\ cellNormalized' =
            Some([gender |-> NormalizeGender(cellValue[1]),
                  availability |-> NormalizeAvailability(cellValue[1]),
                  availabilityStatus |-> NormalizeAvailabilityStatus(cellValue[1]),
                  price |-> NormalizePrice(cellValue[1]),
                  csvPrice |-> CsvNormalizePrice(cellValue[1])])
    /\ UNCHANGED <<rawData, selectedTrendId, cellValue, productRow, bulkParsed, csvParsed,
                   validation>>
    /\ UNCHANGED <<bulkVars, csvVars>>

\* validateProductRow called with the row
ApplyValidateProductRow ==
    /\ productRow # None /\ validation = None
    /\ validation' = Some(ValidateProductRow(productRow[1]))
    /\ UNCHANGED <<rawData, selectedTrendId, cellValue, productRow, bulkParsed, csvParsed,
                   cellNormalized>>
    /\ UNCHANGED <<bulkVars, csvVars>>

FnNext ==
    \/ ApplyProcessRows
    \/ ApplyNormalizeAndValidate
    \/ ApplyNormalizers
    \/ ApplyValidateProductRow

FnSpec == FnInit /\ [][FnNext]_vars

----------------------------------------------------------------------------
(* Notions the properties are stated with *)

\* ceil(n / b): the least k with k * b >= n
CeilOf(n, b) == CHOOSE k \in 0..n : k * b >= n /\ (k = 0 \/ (k - 1) * b < n)

\* the records of a sequence of requests, in dispatch order
RECURSIVE ConcatBatches(_)
ConcatBatches(reqs) ==
    IF reqs = <<>> THEN <<>>
    ELSE Head(reqs).products \o ConcatBatches(Tail(reqs))

\* the number of places where record p occurs in the requests issued
Occurrences(p) ==
    Cardinality({kj \in (1..Len(requests)) \X (1..Len(products)) :
                    /\ kj[2] <= Len(requests[kj[1]].products)
                    /\ requests[kj[1]].products[kj[2]] = p})

Running == pc \in {"fetching", "delaying"}

Resolved(ev) == ev \in {"succeeded", "failed"}

----------------------------------------------------------------------------
(* Properties *)

\* C1: the batches of a run are the contiguous slices
\* [k*B, min((k+1)*B, N)) of the valid records: each holds between 1 and B
\* records, and once the run is over there are ceil(N/B) of them, their sizes
\* sum to N and their concatenation in dispatch order is the record list.
C1_BatchPartition ==
    pc # "idle" =>
        LET n == Len(products)
        IN  /\ \A k \in 1..Len(requests) :
                LET b == requests[k].products
                    lo == (k - 1) * batchSize
                    hi == IF k * batchSize < n THEN k * batchSize ELSE n
                IN  /\ 1 <= Len(b) /\ Len(b) <= batchSize
                    /\ Len(b) = hi - lo
                    /\ \A j \in 1..Len(b) : b[j] = products[lo + j]
            /\ pc = "done" =>
                /\ Len(requests) = CeilOf(n, batchSize)
                /\ Len(ConcatBatches(requests)) = n
                /\ ConcatBatches(requests) = products

\* a finished run of three records in batches of two: sizes 2 and 1
C1_Witness ==
    /\ pc = "done" /\ Len(products) = 3 /\ batchSize = 2
    /\ Len(requests) = 2
    /\ Len(requests[1].products) = 2 /\ Len(requests[2].products) = 1

\* C2: at most one upload request is in flight at any time, and the request
\* for batch k+1 is issued only after the request for batch k has resolved.
C2_OneInFlight ==
    /\ Cardinality(inFlight) <= 1
    /\ \A e \in 1..Len(events) :
        (events[e].ev = "request" /\ events[e].batch > 1) =>
            \E d \in 1..(e - 1) :
                /\ Resolved(events[d].ev)
                /\ events[d].batch = events[e].batch - 1

\* the second request is in flight, the first one has failed
C2_Witness ==
    /\ pc = "fetching" /\ inFlight = {2}
    /\ Len(outcomes) = 1 /\ outcomes[1].kind = "network"

\* C3: a run issues one request per batch in ascending batch order whatever
\* the outcomes; once it is over, ceil(N/B) requests were issued and every
\* record appears in exactly one of them.
C3_OneRequestPerBatch ==
    pc # "idle" =>
        LET n == Len(products)
        IN  /\ \A k \in 1..Len(requests) : requests[k].batch = k
            /\ Len(requests) <= CeilOf(n, batchSize)
            /\ \A r \in 1..n : Occurrences(products[r]) <= 1
            /\ pc = "done" =>
                /\ Len(requests) = CeilOf(n, batchSize)
                /\ Len(outcomes) = Len(requests)
                /\ \A r \in 1..n : Occurrences(products[r]) = 1

\* a finished run of three batches: a rejected fetch, a non-2xx answer, a
\* 2xx answer
C3_Witness ==
    /\ pc = "done" /\ Len(requests) = 3 /\ Len(outcomes) = 3
    /\ outcomes[1].kind = "network"
    /\ outcomes[2].kind = "http"
    /\ outcomes[3].kind = "ok"

\* C4: the step in which the request of a batch fails adds the size of that
\* batch to the error count, appends exactly one message to the error list,
\* leaves the uploaded and skipped totals alone, and the run goes on: the
\* next batch is requested, or after the last batch the run completes with
\* the totals of the earlier batches in its result.
C4_FailedBatch ==
    [][ (/\ Len(outcomes') = Len(outcomes) + 1
         /\ outcomes'[Len(outcomes')].kind # "ok")
        =>
        LET k == Len(outcomes')
            size == Len(requests[k].products)
        IN  /\ totalErrors' = totalErrors + size
            /\ Len(allErrors') = Len(allErrors) + 1
            /\ SubSeq(allErrors', 1, Len(allErrors)) = allErrors
            /\ totalUploaded' = totalUploaded
            /\ totalSkipped' = totalSkipped
            /\ IF k < CeilOf(Len(products), batchSize)
               THEN /\ pc' = "fetching"
                    /\ Len(requests') = k + 1
                    /\ isProcessing'
               ELSE /\ pc' = "done"
                    /\ uploadResult' # None
                    /\ uploadResult'[1].uploaded_count = totalUploaded
                    /\ uploadResult'[1].skipped_count = totalSkipped
                    /\ uploadResult'[1].error_count = totalErrors + size
      ]_vars

\* three batches of which the second failed and the others were stored: the
\* run is completed, the uploaded count is the sum of batches 1 and 3, the
\* error count is the size of batch 2
C4_Witness ==
    /\ pc = "done" /\ Len(outcomes) = 3
    /\ outcomes[1].kind = "ok" /\ outcomes[1].result.uploaded_count # None
    /\ outcomes[2].kind # "ok"
    /\ outcomes[3].kind = "ok" /\ outcomes[3].result.uploaded_count # None
    /\ uploadResult # None
    /\ uploadResult[1].uploaded_count =
            Len(requests[1].products) + Len(requests[3].products)
    /\ uploadResult[1].uploaded_count > 0
    /\ uploadResult[1].error_count = Len(requests[2].products)

\* C5: every started run completes, whatever the outcomes of its requests:
\* it reaches the state with the final result set, isProcessing false and
\* the progress bar at 100.
C5_RunCompletes ==
    isProcessing ~>
        (pc = "done" /\ uploadResult # None /\ ~isProcessing /\ uploadProgress = 100)

\* a completed run all of whose requests failed
C5_Witness ==
    /\ pc = "done" /\ uploadResult # None /\ ~isProcessing /\ uploadProgress = 100
    /\ Len(outcomes) = 2
    /\ \A k \in 1..2 : outcomes[k].kind # "ok"

\* C6: after each batch of a run except the last, whatever its outcome, the
\* pacing interval is waited before the next request is issued, and no wait
\* follows the last batch.
C6_PacingAfterEveryBatch ==
    /\ \A e \in 1..Len(events) :
        (events[e].ev = "request" /\ events[e].batch > 1) =>
            /\ e > 1
            /\ events[e - 1] =
                 [ev |-> "wait", batch |-> events[e].batch - 1, ms |-> PacingMs]
    /\ \A e \in 1..Len(events) :
        events[e].ev = "wait" => events[e].batch < totalBatches

\* the value a count of a 2xx body stands for, a missing one for 0
Reported(x) == IF x = None THEN 0 ELSE x[1]

\* the error list of a result, an absent one being the empty list
ErrorList(r) == IF r.errors = None THEN <<>> ELSE r.errors[1]

\* what the first k outcomes of the run add up to
ExpectedUploaded[k \in 0..Len(outcomes)] ==
    IF k = 0 THEN 0
    ELSE ExpectedUploaded[k - 1]
         + (IF outcomes[k].kind = "ok"
            THEN Reported(outcomes[k].result.uploaded_count) ELSE 0)

ExpectedSkipped[k \in 0..Len(outcomes)] ==
    IF k = 0 THEN 0
    ELSE ExpectedSkipped[k - 1]
         + (IF outcomes[k].kind = "ok"
            THEN Reported(outcomes[k].result.skipped_count) ELSE 0)

ExpectedErrorCount[k \in 0..Len(outcomes)] ==
    IF k = 0 THEN 0
    ELSE ExpectedErrorCount[k - 1]
         + (IF outcomes[k].kind = "ok"
            THEN Reported(outcomes[k].result.error_count)
            ELSE Len(requests[k].products))

ExpectedErrors[k \in 0..Len(outcomes)] ==
    IF k = 0 THEN <<>>
    ELSE ExpectedErrors[k - 1]
         \o (IF outcomes[k].kind = "ok"
             THEN ErrorList(outcomes[k].result)
             ELSE <<BatchFailedMessage(k - 1, outcomes[k])>>)

\* C7: the result of a completed run holds, for the uploaded and skipped
\* counts, the sums of the values reported by the 2xx answers (a missing
\* value as 0), for the error count those sums plus the sizes of the failed
\* batches, and for the error list the concatenation in batch order, without
\* deduplication, of the reported messages and one message per failed batch.
C7_AdditiveSummary ==
    pc = "done" =>
        LET n == Len(outcomes)
        IN  /\ uploadResult # None
            /\ uploadResult[1].uploaded_count = ExpectedUploaded[n]
            /\ uploadResult[1].skipped_count = ExpectedSkipped[n]
            /\ uploadResult[1].error_count = ExpectedErrorCount[n]
            /\ ErrorList(uploadResult[1]) = ExpectedErrors[n]

\* a completed run of three batches: an answer without uploaded count that
\* carries the same message twice, a failed batch, a stored batch
C7_Witness ==
    /\ pc = "done" /\ Len(outcomes) = 3
    /\ outcomes[1].kind = "ok"
    /\ outcomes[1].result.uploaded_count = None
    /\ outcomes[1].result.errors = Some(<<RowRejected, RowRejected>>)
    /\ outcomes[2].kind = "http"
    /\ outcomes[3].kind = "ok" /\ outcomes[3].result.uploaded_count = Some(1)
    /\ uploadResult # None
    /\ Len(ErrorList(uploadResult[1])) = 3
    /\ uploadResult[1].uploaded_count = 1
    /\ uploadResult[1].error_count = 2

\* the sizes of the first k batches sent
RECURSIVE SizesOfFirst(_, _)
SizesOfFirst(reqs, k) ==
    IF k = 0 THEN 0 ELSE SizesOfFirst(reqs, k - 1) + Len(reqs[k].products)

\* C8: every progress snapshot a run publishes has total = N, total_batches
\* = ceil(N/B), 1 <= current_batch <= total_batches and processed = the sum
\* of the sizes of the batches completed so far; processed never decreases
\* within a run, and the snapshot published on completion has processed = N
\* and current_batch = total_batches.
C8_ProgressSnapshots ==
    [][ /\ (processingStats' # processingStats /\ processingStats' # None) =>
            LET st == processingStats'[1]
                n == Len(products')
            IN  /\ st.total = n
                /\ st.total_batches = CeilOf(n, batchSize')
                /\ 1 <= st.current_batch /\ st.current_batch <= st.total_batches
                /\ st.processed = SizesOfFirst(requests', Len(outcomes'))
                /\ (Running /\ processingStats # None) =>
                        st.processed >= processingStats[1].processed
        /\ (Running /\ pc' = "done") =>
            /\ processingStats' # None
            /\ processingStats'[1].processed = Len(products)
            /\ processingStats'[1].current_batch = processingStats'[1].total_batches
      ]_vars

\* the snapshot published for the second batch of a run of three records in
\* batches of two
C8_Witness ==
    /\ pc = "fetching" /\ Len(outcomes) = 1
    /\ processingStats # None
    /\ processingStats[1].total = 3
    /\ processingStats[1].processed = 2
    /\ processingStats[1].current_batch = 2
    /\ processingStats[1].total_batches = 2

\* the two status lines of a completed run
IsSuccessStatus(msg) ==
    msg # <<>> /\ Head(msg) = "Upload complete! Successfully uploaded "

IsFailureStatusNaming(msg, count) ==
    msg = <<"Upload finished with issues. ">> \o NumStr(count)
          \o <<" errors occurred.">>

\* C9: the status of a completed run is the success status exactly when the
\* uploaded count of its result is positive, and otherwise the failure
\* status naming the error count of the result.
C9_FinalStatus ==
    pc = "done" =>
        /\ uploadResult # None
        /\ IsSuccessStatus(statusMessage) <=> uploadResult[1].uploaded_count > 0
        /\ uploadResult[1].uploaded_count = 0 =>
                IsFailureStatusNaming(statusMessage, uploadResult[1].error_count)

\* a completed run in which every record was skipped and none failed
C9_Witness ==
    /\ pc = "done" /\ uploadResult # None
    /\ uploadResult[1].uploaded_count = 0
    /\ uploadResult[1].skipped_count > 0
    /\ uploadResult[1].error_count = 0
    /\ IsFailureStatusNaming(statusMessage, 0)

\* the text contains the digits of the HTTP status
MentionsStatus(text, status) ==
    \E j \in 1..Len(text) :
        /\ j + Len(NumStr(status)) - 1 <= Len(text)
        /\ SubSeq(text, j, j + Len(NumStr(status)) - 1) = NumStr(status)

\* C10: the message synthesized for a batch answered with a non-2xx status
\* carries the detail string of the body when there is one, and a message
\* derived from the HTTP status when the body is missing, is not parseable
\* or has no detail field.
C10_FailureMessage ==
    [][ (/\ Len(outcomes') = Len(outcomes) + 1
         /\ outcomes'[Len(outcomes')].kind = "http")
        =>
        LET resp == outcomes'[Len(outcomes')]
            message == allErrors'[Len(allErrors')]
            prefix == <<"Batch ">> \o NumStr(Len(outcomes')) \o <<" failed: ">>
            text == SubSeq(message, Len(prefix) + 1, Len(message))
        IN  /\ Len(allErrors') = Len(allErrors) + 1
            /\ SubSeq(message, 1, Len(prefix)) = prefix
            /\ IF /\ resp.errorBody # None /\ resp.errorBody[1] # JsonNull
                  /\ resp.errorBody[1].detail # None
               THEN text = resp.errorBody[1].detail[1]
               ELSE MentionsStatus(text, resp.status)
      ]_vars

\* the errors shown are the reports of invalid rows of the parsed file
RowErrorsShown ==
    /\ validationErrors # <<>>
    /\ \A e \in 1..Len(validationErrors) : Head(validationErrors[e]) = "Row "

\* C11: when a parsed file holds both valid and invalid rows, the invalid
\* rows are reported and the valid rows proceed: the upload of the valid rows
\* can be started as the file was parsed.
C11_ValidRowsProceed ==
    (/\ Len(parsedProducts) > 0 /\ RowErrorsShown
     /\ ~isProcessing /\ uploadResult = None)
    => ENABLED StartUpload

\* C12: while no valid row is parsed, no step issues an upload request or
\* puts the component in the uploading state, and a call of startUpload is
\* answered with the error 'No products to upload' and changes nothing else.
C12_NoProductsNoUpload ==
    [][ (Len(parsedProducts) = 0 /\ ~isProcessing) =>
            /\ ~isProcessing'
            /\ pc' = "idle"
            /\ requests' = <<>> /\ inFlight' = {}
            /\ StartUpload =>
                    /\ validationErrors' = << <<"No products to upload">> >>
                    /\ UNCHANGED <<uploadResult, processingStats,
                                   uploadProgress, statusMessage>>
      ]_vars

\* a file without a valid row was parsed and the upload was tried: the row
\* report has given way to the error, nothing was sent
C12_Witness ==
    /\ Len(parsedProducts) = 0
    /\ validationErrors = << <<"No products to upload">> >>
    /\ statusMessage = <<"Parsed ", "0", " valid products, ", "1", " errors found">>
    /\ ~isProcessing /\ pc = "idle" /\ requests = <<>>
    /\ uploadResult = None

\* C13: after the parse of a file has failed, and until a later parse
\* completes, no rows are available for upload and no upload request is
\* issued; the failure is reported once.
C13_ParseFailureLeavesNoRows ==
    lastParse = "error" =>
        /\ parsedRows = <<>>
        /\ csvRequest = None
        /\ uploadStatus = <<"Failed to parse CSV file">> =>
                /\ Len(callbacks) = 1
                /\ callbacks[1].fn = "onError"

\* the five rules of the validator, each with its message
NameMessage == <<"Product name is required">>
TypeMessage == <<"Product type is required">>
PriceMessage == <<"Price must be a valid positive number">>
GenderMessage == <<"Gender must be male, female, or unisex">>
AvailabilityMessage ==
    <<"Availability status must be one of: in_stock, out_of_stock, discontinued, pre_order">>

\* the messages of the rules a canonical product violates
Violations(p) ==
    (IF p.name = <<>> THEN {NameMessage} ELSE {})
    \cup (IF p.product_type = <<>> THEN {TypeMessage} ELSE {})
    \cup (IF p.price # None
             /\ (p.price[1].kind # "finite" \/ p.price[1].negative)
          THEN {PriceMessage} ELSE {})
    \cup (IF p.gender \notin {Male, Female, Unisex} THEN {GenderMessage} ELSE {})
    \cup (IF p.availability_status \notin {InStock, OutOfStock, Discontinued, PreOrder}
          THEN {AvailabilityMessage} ELSE {})

\* the elements of a sequence
Range(seq) == {seq[k] : k \in 1..Len(seq)}

\* the number of `Row N: ...` reports that end with the message
ReportsOf(errors, message) ==
    Cardinality({e \in 1..Len(errors) :
                    errors[e][Len(errors[e])] = ": " \o message[1]})

\* C14: validation evaluates all five rules independently and reports every
\* violated rule of a row together: the validator returns exactly the
\* messages of the violated rules, and each flow reports, for every row of
\* a file, every rule that row violates.
C14_AllRulesReported ==
    /\ validation # None =>
            /\ Range(validation[1].errors) = Violations(productRow[1])
            /\ Len(validation[1].errors) = Cardinality(Violations(productRow[1]))
            /\ validation[1].isValid <=> Violations(productRow[1]) = {}
    /\ csvParsed # None =>
            \A k \in 1..Len(rawData) :
                LET violated == Violations(csvParsed[1].rows[k])
                    reports == {e \in Range(csvParsed[1].parsed.errors) : e.row = k}
                IN  IF violated = {} THEN reports = {}
                    ELSE /\ Cardinality(reports) = 1
                         /\ \A e \in reports : Range(e.errors) = violated
    /\ bulkParsed # None =>
            \A message \in {NameMessage, TypeMessage} :
                ReportsOf(bulkParsed[1].parsed.errors, message) =
                    Cardinality({k \in 1..Len(rawData) :
                                    message \in Violations(bulkParsed[1].product[k])})

\* C15: a row with a violation is not among the rows offered for upload,
\* and it is reported under its 1-based index among the data rows, a row
\* without name with the message 'Product name is required'.
C15_InvalidRowsReported ==
    /\ csvParsed # None =>
            /\ \A k \in 1..Len(rawData) :
                    LET row == csvParsed[1].rows[k]
                    IN  Violations(row) # {} =>
                            \E e \in Range(csvParsed[1].parsed.errors) :
                                /\ e.row = k
                                /\ row.name = <<>> => NameMessage \in Range(e.errors)
            /\ \A row \in Range(csvParsed[1].parsed.validRows) : Violations(row) = {}
    /\ bulkParsed # None =>
            /\ \A k \in 1..Len(rawData) :
                    LET product == bulkParsed[1].product[k]
                        label == <<"Row ">> \o NumStr(k)
                    IN  Violations(product) # {} =>
                            /\ \E e \in Range(bulkParsed[1].parsed.errors) :
                                    SubSeq(e, 1, Len(label)) = label
                            /\ product.name = <<>> =>
                                    label \o <<": Product name is required">>
                                        \in Range(bulkParsed[1].parsed.errors)
            /\ \A product \in Range(bulkParsed[1].parsed.products) :
                    Violations(product) = {}

\* a sequence of characters
IsText(x) == DOMAIN x = 1..Len(x)

\* C16: whatever the cells of a raw row hold, the product each flow builds
\* for it has gender male, female or unisex, availability_status in_stock,
\* out_of_stock, discontinued or pre_order, and a currency that is a text,
\* the default USD when the row has no currency cell: none of the three is
\* ever undefined.
C16_DefaultsAlwaysDefined ==
    /\ bulkParsed # None =>
            \A k \in 1..Len(rawData) :
                LET product == bulkParsed[1].product[k]
                IN  /\ product.gender \in {Male, Female, Unisex}
                    /\ product.availability_status
                            \in {InStock, OutOfStock, Discontinued, PreOrder}
                    /\ "currency" \in DOMAIN product /\ IsText(product.currency)
                    /\ "currency" \notin DOMAIN rawData[k] => product.currency = USD
    /\ csvParsed # None =>
            \A k \in 1..Len(rawData) :
                LET row == csvParsed[1].rows[k]
                IN  /\ row.gender \in {Male, Female, Unisex}
                    /\ row.availability_status
                            \in {InStock, OutOfStock, Discontinued, PreOrder}
                    /\ "currency" \in DOMAIN row /\ IsText(row.currency)
                    /\ DOMAIN rawData[k] \cap {"currency", "curr"} = {}
                            => row.currency = USD

\* both flows have built the product of a row without currency header whose
\* gender and availability cells hold unrecognized text
C16_Witness ==
    /\ bulkParsed # None /\ csvParsed # None
    /\ Len(rawData) = 1
    /\ "gender" \in DOMAIN rawData[1] /\ rawData[1].gender = <<"k", "i", "d", "s">>
    /\ "availability_status" \in DOMAIN rawData[1]
    /\ rawData[1].availability_status = <<"j", "u", "n", "k">>
    /\ DOMAIN rawData[1] \cap {"currency", "curr", "target", "status"} = {}
    /\ bulkParsed[1].product[1].gender = Unisex
    /\ bulkParsed[1].product[1].availability_status = InStock
    /\ bulkParsed[1].product[1].currency = USD
    /\ csvParsed[1].rows[1].gender = Unisex
    /\ csvParsed[1].rows[1].availability_status = InStock
    /\ csvParsed[1].rows[1].currency = USD

\* three uppercase letters
IsCurrencyCode(c) ==
    Len(c) = 3 /\ \A j \in 1..3 : \E u \in 65..90 : c[j] = Chr(u)

\* the row has no value under any of the headers
NoValue(row, headers) ==
    \A h \in headers : h \notin DOMAIN row \/ row[h] = <<>>

\* C17: the currency of the product built for a raw row is an uppercase
\* 3-letter code, and it is USD when the row supplies no currency value.
C17_CurrencyCode ==
    /\ bulkParsed # None =>
            \A k \in 1..Len(rawData) :
                LET currency == bulkParsed[1].product[k].currency
                IN  /\ IsCurrencyCode(currency)
                    /\ NoValue(rawData[k], {"currency"}) => currency = USD
    /\ csvParsed # None =>
            \A k \in 1..Len(rawData) :
                LET currency == csvParsed[1].rows[k].currency
                IN  /\ IsCurrencyCode(currency)
                    /\ NoValue(rawData[k], {"currency", "curr"}) => currency = USD

\* the first cell, in the order of the headers, that is present and not
\* empty; the empty text when there is none
RECURSIVE FirstNonEmptyCell(_, _)
FirstNonEmptyCell(row, headers) ==
    IF headers = <<>> THEN <<>>
    ELSE IF ~NoValue(row, {Head(headers)}) THEN row[Head(headers)]
    ELSE FirstNonEmptyCell(row, Tail(headers))

\* the string after trim has no whitespace at either end and is what is
\* left of the cell
TrimmedFrom(text, cell) ==
    /\ text = <<>> \/ (Head(text) \notin Whitespace /\ text[Len(text)] \notin Whitespace)
    /\ \E a \in 0..Len(cell) : \E b \in 0..Len(cell) :
            /\ a + Len(text) + b = Len(cell)
            /\ SubSeq(cell, a + 1, a + Len(text)) = text
            /\ \A j \in (1..a) \cup ((Len(cell) - b + 1)..Len(cell)) :
                    cell[j] \in Whitespace

\* C18: each flow takes a field from the first synonym, in the order of its
\* list, whose cell is not empty: the name is the trimmed text of the first
\* non-empty cell among the name synonyms, and gender and availability are
\* what the normalizers make of the first non-empty cell among theirs.
C18_FirstNonEmptySynonymWins ==
    /\ bulkParsed # None =>
            \A k \in 1..Len(rawData) :
                LET row == rawData[k]
                    product == bulkParsed[1].product[k]
                IN  /\ TrimmedFrom(product.name,
                            FirstNonEmptyCell(row, <<"name", "product_name", "title">>))
                    /\ product.gender =
                            NormalizeGender(
                                Some(FirstNonEmptyCell(row, <<"gender", "target">>)))
                    /\ product.availability_status =
                            NormalizeAvailability(
                                Some(FirstNonEmptyCell(row,
                                        <<"availability_status", "status", "stock">>)))
    /\ csvParsed # None =>
            \A k \in 1..Len(rawData) :
                LET row == rawData[k]
                    product == csvParsed[1].rows[k]
                IN  /\ TrimmedFrom(product.name,
                            FirstNonEmptyCell(row, <<"name", "product_name",
                                                     "productName", "title">>))
                    /\ product.gender =
                            NormalizeGender(
                                Some(FirstNonEmptyCell(row, <<"gender", "sex", "target">>)))
                    /\ product.availability_status =
                            NormalizeAvailabilityStatus(
                                Some(FirstNonEmptyCell(row,
                                        <<"availability_status", "availability",
                                          "status", "stock">>)))

\* the text without the whitespace at its ends, in lowercase
Folded(text) == ToLowerCase(Trim(text))

\* the texts of the aliases
Word(w) ==
    CASE w = "available" -> <<"a", "v", "a", "i", "l", "a", "b", "l", "e">>
      [] w = "in stock" -> <<"i", "n", " ", "s", "t", "o", "c", "k">>
      [] w = "unavailable" -> <<"u", "n", "a", "v", "a", "i", "l", "a", "b", "l", "e">>
      [] w = "out of stock" -> <<"o", "u", "t", " ", "o", "f", " ", "s", "t", "o", "c", "k">>
      [] w = "sold out" -> <<"s", "o", "l", "d", " ", "o", "u", "t">>
      [] w = "preorder" -> <<"p", "r", "e", "o", "r", "d", "e", "r">>
      [] w = "coming soon" -> <<"c", "o", "m", "i", "n", "g", " ", "s", "o", "o", "n">>
      [] w = "m" -> <<"m">>
      [] w = "man" -> <<"m", "a", "n">>
      [] w = "men" -> <<"m", "e", "n">>
      [] w = "f" -> <<"f">>
      [] w = "woman" -> <<"w", "o", "m", "a", "n">>
      [] w = "women" -> <<"w", "o", "m", "e", "n">>

\* the status the availability rule of C19 gives a value
AvailabilityOf(value) ==
    IF value = None \/ value[1] = <<>> THEN InStock
    ELSE LET folded == Folded(value[1])
             snake == ReplaceWhitespace(folded)
         IN  IF snake \in {InStock, OutOfStock, Discontinued, PreOrder} THEN snake
             ELSE IF folded \in {Word("available"), Word("in stock")} THEN InStock
             ELSE IF folded \in {Word("unavailable"), Word("out of stock"),
                                 Word("sold out")}
             THEN OutOfStock
             ELSE IF folded \in {Word("preorder"), Word("coming soon")} THEN PreOrder
             ELSE InStock

\* C19: both availability normalizers give a value, without regard to case
\* and to whitespace at its ends, the canonical status its snake_case form
\* is, else in_stock for available and in stock, out_of_stock for
\* unavailable, out of stock and sold out, pre_order for preorder and coming
\* soon, and in_stock for every other or missing value.
C19_AvailabilityMapping ==
    cellNormalized # None =>
        /\ cellNormalized[1].availability = AvailabilityOf(cellValue[1])
        /\ cellNormalized[1].availabilityStatus = AvailabilityOf(cellValue[1])

\* 'Sold Out' has been normalized to out_of_stock by both
C19_Witness ==
    /\ cellValue = Some(Some(<<"S", "o", "l", "d", " ", "O", "u", "t">>))
    /\ cellNormalized # None
    /\ cellNormalized[1].availability = OutOfStock
    /\ cellNormalized[1].availabilityStatus = OutOfStock

\* C20: the gender normalizer gives, without regard to case and to
\* whitespace at the ends, male for m, male, man and men, female for f,
\* female, woman and women, and unisex for every other or missing value.
C20_GenderMapping ==
    cellNormalized # None =>
        LET value == cellValue[1]
            gender == cellNormalized[1].gender
        IN  IF value = None THEN gender = Unisex
            ELSE IF Folded(value[1]) \in {Word("m"), Male, Word("man"), Word("men")}
            THEN gender = Male
            ELSE IF Folded(value[1]) \in {Word("f"), Female, Word("woman"),
                                          Word("women")}
            THEN gender = Female
            ELSE gender = Unisex

\* ' Male ' has been normalized to male
C20_Witness ==
    /\ cellValue = Some(Some(<<" ", "M", "a", "l", "e", " ">>))
    /\ cellNormalized # None
    /\ cellNormalized[1].gender = Male

\* the currency symbols and separators a price is written with
CurrencySymbols == {"$", Pound, Euro, Yen, ","}

\* the number a price text parses to once the symbols are stripped
StrippedPrice(text) == ParseFloat(Trim(RemoveAll(text, CurrencySymbols)))

\* the value is absent, empty, unparseable or negative
NoPrice(value) ==
    \/ value = None
    \/ value[1] = <<>>
    \/ StrippedPrice(value[1]).kind # "finite"
    \/ StrippedPrice(value[1]).negative

\* the price cell of a raw row: the first of the headers that holds a text
PriceCell(row) ==
    IF NoValue(row, {"price", "cost"}) THEN None
    ELSE Some(FirstNonEmptyCell(row, <<"price", "cost">>))

\* C21: each price normalizer returns a number only when the value, its
\* currency symbols and separators stripped, parses to a finite number >= 0,
\* and then that number; for an absent, empty, unparseable or negative value
\* it returns undefined; and a row with such a price and a non-empty name and
\* product_type is among the valid rows of its flow, its price undefined.
C21_PriceOrUndefined ==
    /\ cellNormalized # None =>
            \A result \in {cellNormalized[1].price, cellNormalized[1].csvPrice} :
                /\ result # None =>
                        /\ ~NoPrice(cellValue[1])
                        /\ result[1] = StrippedPrice(cellValue[1][1])
                /\ NoPrice(cellValue[1]) => result = None
    /\ bulkParsed # None =>
            \A k \in 1..Len(rawData) :
                LET product == bulkParsed[1].product[k]
                IN  (/\ NoPrice(PriceCell(rawData[k]))
                     /\ product.name # <<>> /\ product.product_type # <<>>)
                    => /\ product.price = None
                       /\ product \in Range(bulkParsed[1].parsed.products)
    /\ csvParsed # None =>
            \A k \in 1..Len(rawData) :
                LET row == csvParsed[1].rows[k]
                IN  (/\ NoPrice(PriceCell(rawData[k]))
                     /\ row.name # <<>> /\ row.product_type # <<>>)
                    => /\ row.price = None
                       /\ row \in Range(csvParsed[1].parsed.validRows)

\* the trend_id cell of a raw row, None when the row carries no value
TrendCell(row) == IF NoValue(row, {"trend_id"}) THEN None ELSE Some(row.trend_id)

\* the default association of each flow: 1 in the batched flow, the
\* selectedTrendId, if any, in the single-request flow
BatchedDefault == Some(Decimal(FALSE, 1, 0))
SingleRequestDefault ==
    IF selectedTrendId = None THEN None
    ELSE Some(Decimal(FALSE, selectedTrendId[1], 0))

\* the statement of C22 as claimed: the trend_id of a row is the value of
\* its trend_id cell whenever the row carries one, and the default of the
\* flow only when the row carries none.
C22_ExplicitTrendWins ==
    /\ bulkParsed # None =>
            \A k \in 1..Len(rawData) :
                bulkParsed[1].product[k].trend_id =
                    IF TrendCell(rawData[k]) = None THEN BatchedDefault
                    ELSE Some(ParseInt(TrendCell(rawData[k])[1]))
    /\ csvParsed # None =>
            \A k \in 1..Len(rawData) :
                csvParsed[1].rows[k].trend_id =
                    IF TrendCell(rawData[k]) = None THEN SingleRequestDefault
                    ELSE Some(ParseInt(TrendCell(rawData[k])[1]))

\* the cell starts with an integer other than zero
NamesTrend(cell) == cell # None /\ ~FalsyNumber(ParseInt(cell[1]))

\* C22: the trend_id of a row is the integer its trend_id cell starts with
\* when the row carries such a cell and the integer is not zero; it is the
\* default of the flow (1 in the batched flow, selectedTrendId in the
\* single-request flow) when the row carries no value, or one that is not a
\* number or is zero.
C22_TrendIdOrDefault ==
    /\ bulkParsed # None =>
            \A k \in 1..Len(rawData) :
                bulkParsed[1].product[k].trend_id =
                    IF NamesTrend(TrendCell(rawData[k]))
                    THEN Some(ParseInt(TrendCell(rawData[k])[1]))
                    ELSE BatchedDefault
    /\ csvParsed # None =>
            \A k \in 1..Len(rawData) :
                csvParsed[1].rows[k].trend_id =
                    IF NamesTrend(TrendCell(rawData[k]))
                    THEN Some(ParseInt(TrendCell(rawData[k])[1]))
                    ELSE SingleRequestDefault

\* both flows have built the product of a row whose trend_id cell holds
\* 'abc', the single-request flow with selectedTrendId 7
C22_Witness ==
    /\ bulkParsed # None /\ csvParsed # None
    /\ selectedTrendId = Some(7)
    /\ Len(rawData) = 1
    /\ TrendCell(rawData[1]) = Some(<<"a", "b", "c">>)
    /\ bulkParsed[1].product[1].trend_id = Some(Decimal(FALSE, 1, 0))
    /\ csvParsed[1].rows[1].trend_id = Some(Decimal(FALSE, 7, 0))

\* the canonical fields of the product of the first scenario
IsAirMax(product) ==
    /\ product.name = <<"A", "i", "r", " ", "M", "a", "x", " ", "9", "0">>
    /\ product.product_type = <<"s", "n", "e", "a", "k", "e", "r", "s">>
    /\ product.price = Some(Decimal(FALSE, 120, 0))
    /\ product.currency = <<"U", "S", "D">>
    /\ product.gender = <<"m", "a", "l", "e">>
    /\ product.availability_status = <<"i", "n", "_", "s", "t", "o", "c", "k">>

\* C23: the raw row {name: 'Air Max 90', product_type: 'Sneakers', price:
\* '$120.00', gender: 'Men'} is normalized by each flow to name 'Air Max 90',
\* product_type 'sneakers', price 120, currency 'USD', gender 'male' and
\* availability_status 'in_stock', and the record is among the valid rows.
C23_ScenarioA ==
    /\ bulkParsed # None =>
            \A k \in 1..Len(rawData) :
                rawData[k] = AirMaxRow =>
                    /\ IsAirMax(bulkParsed[1].product[k])
                    /\ bulkParsed[1].product[k] \in Range(bulkParsed[1].parsed.products)
                    /\ bulkParsed[1].parsed.errors = <<>>
    /\ csvParsed # None =>
            \A k \in 1..Len(rawData) :
                rawData[k] = AirMaxRow =>
                    /\ IsAirMax(csvParsed[1].rows[k])
                    /\ csvParsed[1].rows[k] \in Range(csvParsed[1].parsed.validRows)
                    /\ csvParsed[1].parsed.errors = <<>>
                    /\ ValidateProductRow(csvParsed[1].rows[k]).isValid

\* both flows have normalized and validated the row of the scenario
C23_Witness ==
    /\ rawData = <<AirMaxRow>>
    /\ bulkParsed # None /\ csvParsed # None
    /\ Len(bulkParsed[1].parsed.products) = 1
    /\ Len(csvParsed[1].parsed.validRows) = 1
    /\ bulkParsed[1].parsed.products[1].price = Some(Decimal(FALSE, 120, 0))
    /\ csvParsed[1].parsed.validRows[1].gender = Male

\* the snapshot published at the head of the first turn of the loop
FirstSnapshot ==
    Some([total |-> Len(products),
          processed |-> 0,
          successful |-> 0,
          errors |-> 0,
          current_batch |-> 1,
          total_batches |-> CeilOf(Len(products), batchSize)])

\* C24: a step that starts a run, whatever an earlier run has left, leaves
\* the uploaded, skipped and error totals at 0, the error list empty, the
\* progress at 0, the snapshot at that of a run with nothing processed and
\* no result shown; and no result of an earlier run is shown while a run is
\* in progress.
C24_FreshSummary ==
    [][ /\ (~Running /\ Running') =>
            /\ totalUploaded' = 0 /\ totalSkipped' = 0 /\ totalErrors' = 0
            /\ allErrors' = <<>>
            /\ outcomes' = <<>>
            /\ uploadProgress' = 0
            /\ processingStats' = FirstSnapshot'
            /\ uploadResult' = None
        /\ Running' => uploadResult' = None
      ]_vars

\* a run has completed with records uploaded, another file has been parsed
\* without Start Over, and the next run can start: the progress and the
\* snapshot of the completed run are still held
C24_Witness ==
    /\ pc = "idle" /\ ~isProcessing
    /\ uploadProgress = 100
    /\ processingStats # None
    /\ processingStats[1].successful > 0
    /\ processingStats[1].processed = processingStats[1].total
    /\ uploadResult = None
    /\ Len(parsedProducts) > 0
    /\ ENABLED StartUpload

\* C25: when the upload request of the single-request flow has succeeded
\* with a result that reports uploaded_count, the count in the status and the
\* count passed to onUploadComplete are that uploaded_count, for every value
\* from 0 to the number of rows sent.
C25_UploadedCountVerbatim ==
    (/\ csvResponse # None
     /\ csvResponse[1].kind = "ok"
     /\ csvResponse[1].result.uploaded_count # None
     /\ Len(callbacks) = 1 /\ callbacks[1].fn = "onUploadComplete")
    => LET reported == csvResponse[1].result.uploaded_count[1]
       IN  /\ callbacks[1].count = reported
           /\ uploadStatus = <<"Successfully uploaded ">> \o NumStr(reported)
                              \o <<" products">>

\* C26: of the rows normalizeProductRow yields, validateProductRow never
\* reports the price, the gender or the availability status: every
\* normalized row has a price that is undefined or finite and >= 0, a gender
\* and an availability status of the allowed sets, and it is reported as
\* invalid, with the name and product type messages only, exactly when its
\* name or its product_type is empty.
C26_OnlyNameAndTypeCanFail ==
    csvParsed # None =>
        \A k \in 1..Len(rawData) :
            LET row == csvParsed[1].rows[k]
                check == ValidateProductRow(row)
                reports == {e \in Range(csvParsed[1].parsed.errors) : e.row = k}
            IN  /\ row.price = None
                    \/ (row.price[1].kind = "finite" /\ ~row.price[1].negative)
                /\ row.gender \in {Male, Female, Unisex}
                /\ row.availability_status
                        \in {InStock, OutOfStock, Discontinued, PreOrder}
                /\ Range(check.errors) \subseteq {NameMessage, TypeMessage}
                /\ ~check.isValid <=> (row.name = <<>> \/ row.product_type = <<>>)
                /\ reports # {} <=> (row.name = <<>> \/ row.product_type = <<>>)
                /\ \A e \in reports :
                        Range(e.errors) \subseteq {NameMessage, TypeMessage}

\* a row with the price '-5' and a name and a product type has been
\* normalized and validated: it is valid, its price undefined
C26_Witness ==
    /\ csvParsed # None
    /\ Len(rawData) = 1
    /\ PriceCell(rawData[1]) = Some(<<"-", "5">>)
    /\ csvParsed[1].rows[1].price = None
    /\ csvParsed[1].parsed.errors = <<>>
    /\ Len(csvParsed[1].parsed.validRows) = 1

\* the 2xx answer accounts for every record of the batch it answers
Conserving(k) ==
    outcomes[k].kind = "ok" =>
        Reported(outcomes[k].result.uploaded_count)
        + Reported(outcomes[k].result.skipped_count)
        + Reported(outcomes[k].result.error_count)
            = Len(requests[k].products)

\* C27: when every 2xx answer of a run accounted for every record of its
\* batch, the uploaded, skipped and error counts of the completed run add up
\* to the number of records of the run, whichever batches failed.
C27_RecordConservation ==
    (pc = "done" /\ \A k \in 1..Len(outcomes) : Conserving(k)) =>
        /\ uploadResult # None
        /\ uploadResult[1].uploaded_count + uploadResult[1].skipped_count
           + uploadResult[1].error_count = Len(products)

\* a completed run of three records in batches of two whose first batch was
\* stored and whose last batch, of one record, failed
C27_Witness ==
    /\ pc = "done" /\ Len(products) = 3 /\ batchSize = 2
    /\ Len(outcomes) = 2
    /\ outcomes[1].kind = "ok" /\ outcomes[2].kind # "ok"
    /\ uploadResult # None
    /\ uploadResult[1].uploaded_count = 2
    /\ uploadResult[1].error_count = 1

\* C28: while a run is in progress no step selects or parses another file:
\* the number of files being parsed stays as it is, and parsedProducts,
\* validationErrors, uploadResult and the status message are changed by the
\* steps of the run only.
C28_NoFileWhileProcessing ==
    [][ isProcessing =>
            /\ pendingParses' = pendingParses
            /\ ~RunStep => UNCHANGED <<parsedProducts, validationErrors,
                                       uploadResult, statusMessage>>
      ]_vars

\* C29: a run starts only from a state with parsed products, no run in
\* progress and no result shown, and it uploads those parsed products; a
\* step that takes the result of a finished run away also empties the parsed
\* products, so the rows of a finished run are never uploaded again without
\* a file being parsed anew.
C29_OneRunPerParse ==
    [][ /\ (~Running /\ Running') =>
            /\ Len(parsedProducts) > 0
            /\ ~isProcessing
            /\ uploadResult = None
            /\ products' = parsedProducts
        /\ (uploadResult # None /\ uploadResult' = None) => parsedProducts' = <<>>
      ]_vars

\* a run has completed and its rows are still held: the result is shown and
\* the upload cannot be started
C29_Witness ==
    /\ pc = "done" /\ ~isProcessing
    /\ uploadResult # None
    /\ Len(parsedProducts) > 0 /\ parsedProducts = products
    /\ ~ENABLED StartUpload

\* the request in flight is answered in this step
Answered == csvPc = "fetching" /\ csvPc' # "fetching"

\* C30: when the upload request of the single-request flow is answered,
\* parsedRows is cleared exactly when the upload succeeded; a failed upload
\* leaves parsedRows and the validation errors as they were and calls
\* onError and not onUploadComplete, a successful one calls
\* onUploadComplete; either way isUploading is false afterwards.
C30_RowsClearedOnSuccessOnly ==
    [][ Answered =>
            /\ csvResponse' # None
            /\ ~isUploading'
            /\ parsedRows # <<>>
            /\ parsedRows' = <<>> <=> csvResponse'[1].kind = "ok"
            /\ csvResponse'[1].kind # "ok" =>
                    /\ UNCHANGED <<parsedRows, rowValidationErrors>>
                    /\ Len(callbacks') = 1
                    /\ callbacks'[1].fn = "onError"
                    /\ uploadStatus' = <<"Upload failed">>
            /\ csvResponse'[1].kind = "ok" =>
                    /\ Len(callbacks') = 1
                    /\ callbacks'[1].fn = "onUploadComplete"
      ]_vars

\* an upload of two rows has failed with a non-2xx answer: the rows are
\* kept, the error was reported, nothing is uploading
C30_Witness ==
    /\ csvResponse # None /\ csvResponse[1].kind = "http"
    /\ csvPc = "idle" /\ ~isUploading
    /\ Len(parsedRows) = 2
    /\ uploadStatus = <<"Upload failed">>
    /\ Len(callbacks) = 1 /\ callbacks[1].fn = "onError"

====
